---- MODULE Spec2Model ----
(***************************************************************************)
(* A model of the GuardianAI summarizing service: the triage scorer        *)
(* (triage.py), the free-text summarizer (summarizer.py) and the lazily    *)
(* loaded model caches (triage.py MODEL_CACHE, modeling.py wrapper).       *)
(*                                                                         *)
(* Numbers.  Scores are Python floats in the source.  Here a score is an   *)
(* integer number of millionths (4.0 is 4000000), which represents every   *)
(* weight, threshold and product of the source exactly for the inputs the  *)
(* model draws; the onset inputs are chosen so that 1/(1+onset) is exact   *)
(* in millionths.  Optional values (Python None) are the empty sequence,   *)
(* a present value x is <<x>>.                                             *)
(*                                                                         *)
(* Specifications.  SpecTriage runs triage_case on a sequence of case      *)
(* summaries in one process; SpecCache runs the lazy loaders of triage.py  *)
(* and modeling.py in parallel threads, one statement at a time;           *)
(* SpecSummarize runs summarize_event on a sequence of texts, given as     *)
(* sequences of characters, in one process; SpecService runs the HTTP      *)
(* endpoints of main.py on one shared wrapper while guardian_cli.py        *)
(* --train writes the artifact files, one file operation at a time.        *)
(***************************************************************************)
EXTENDS Integers, Sequences, FiniteSets, TLC

VARIABLES
    config,        \* triage.py CONFIG (thresholds, toggles, SKIP_ML)
    MODEL_CACHE,   \* triage.py MODEL_CACHE: [model, kind]; model 0 is None
    loads,         \* how many times joblib.load has returned an artifact (triage)
    inbox,         \* the case summaries still to be triaged, in arrival order
    tri,           \* the last triage_case call: <<>> or <<[case, result, ...]>>
    world,         \* the artifact files: [exists, load_ok]
    pc,            \* per thread: the statement of the loader it is about to run
    local,         \* per thread: its local variables and what it has met
    _MODEL_WRAPPER, \* modeling.py _MODEL_WRAPPER: 0 is None, else an instance
    wrappers,      \* per SeverityModelWrapper instance: [nlp, model, ready]
    made,          \* how many wrappers, NLP handles and models were created
    SNOMED_MAP,    \* summarizer.py SNOMED_MAP: term -> code
    requests,      \* the summarize_event calls still to come, in order
    summ,          \* the last summarize_event call: <<>> or <<[request, ...]>>
    artifacts,     \* modeling.py MODEL_DIR: the four artifact files
    host,          \* where main.py runs: the environment variable, the packages
    wrapper,       \* the SeverityModelWrapper that main.py's requests share
    trainer,       \* guardian_cli.py --train: [pc, runs, y]
    served,        \* how many HTTP requests main.py has answered
    reply          \* the last HTTP reply: <<>> or <<[endpoint, code, ...]>>

vars == <<config, MODEL_CACHE, loads, inbox, tri,
          world, pc, local, _MODEL_WRAPPER, wrappers, made,
          SNOMED_MAP, requests, summ,
          artifacts, host, wrapper, trainer, served, reply>>

\* The state of the triage scorer.
triageVars == <<config, MODEL_CACHE, loads, inbox, tri>>
\* The state of the summarizer.
summaryVars == <<SNOMED_MAP, requests, summ>>

\* The state of the concurrent loaders, which a sequential run leaves alone.
loaderVars == <<world, pc, local, _MODEL_WRAPPER, wrappers, made>>

\* The state of the HTTP service and of the training command.
serviceVars == <<artifacts, host, wrapper, trainer, served, reply>>

None == <<>>
Some(x) == <<x>>
IsSome(o) == o # <<>>
Val(o) == o[1]

Min(a, b) == IF a <= b THEN a ELSE b
Max(a, b) == IF a >= b THEN a ELSE b

\* Python seq[:n]
Take(s, n) == IF Len(s) <= n THEN s ELSE SubSeq(s, 1, n)

\* F applied to the value of x, x being evaluated once (a local variable).
Bind(x, F(_)) == CHOOSE y \in { F(v) : v \in {x} } : TRUE

\* ----------------------------- ARTIFACT FILES -------------------------
\* A file of the artifacts directory: whether it exists and, when its
\* content is complete, what it holds.  A file that was opened for writing
\* and is not yet written exists without readable content.
Missing == [exists |-> FALSE, content |-> None]
Opened == [exists |-> TRUE, content |-> None]
Written(c) == [exists |-> TRUE, content |-> Some(c)]

\* MODEL_DIR after MODEL_DIR.mkdir(exist_ok=True) on a fresh checkout
NoArtifacts ==
    [ model |-> Missing, vectorizer |-> Missing,
      feature_meta |-> Missing, thresholds |-> Missing ]

\* SeverityModelWrapper.__init__; _nlp 0 is Python's None
SeverityModelWrapper ==
    [ _nlp |-> 0, _model |-> None, _vectorizer |-> None,
      _feature_names |-> << >>, _thresholds |-> << >> ]

\* guardian_cli.py before --train was ever run
TrainerIdle == [pc |-> "idle", runs |-> 0, y |-> [urgent |-> 0, critical |-> 0]]

\* The service when nothing was trained and no request was answered.
ServiceAtRest ==
    /\ artifacts = NoArtifacts
    /\ host = [USE_PRETRAINED_SEVERITY |-> None, packages |-> {"spacy"}]
    /\ wrapper = SeverityModelWrapper
    /\ trainer = TrainerIdle
    /\ served = 0
    /\ reply = None

\* summarizer.py SNOMED_MAP.  The code table as the module defines it at import.
SNOMED_MAP_AT_IMPORT ==
       "chest pain" :> "SNOMED:29857009"
    @@ "shortness of breath" :> "SNOMED:267036007"
    @@ "can't breathe" :> "SNOMED:267036007"
    @@ "cannot breathe" :> "SNOMED:267036007"
    @@ "difficulty breathing" :> "SNOMED:267036007"
    @@ "seizure" :> "SNOMED:91175000"
    @@ "unconscious" :> "SNOMED:3006004"
    @@ "not responding" :> "SNOMED:3006004"
    @@ "bleeding" :> "SNOMED:131148009"
    @@ "headache" :> "SNOMED:25064002"
    @@ "severe headache" :> "SNOMED:25064002"
    @@ "fainting" :> "SNOMED:271594007"
    @@ "fainted" :> "SNOMED:271594007"

\* ----------------------------- CONFIG ---------------------------------
\* One unit of score: scores are counted in millionths.
Unit == 1000 * 1000

CONFIG ==
    [ CRITICAL_THRESHOLD |-> 8500000,
      URGENT_THRESHOLD |-> 4000000,
      CRITICAL_OVERRIDE_SCORE |-> 9500000,
      MIN_SCORE |-> 0,
      MAX_SCORE |-> 10000000,
      SKIP_ML |-> FALSE,
      ENABLE_RULE_LOW_BP |-> TRUE,
      ENABLE_RULE_LOW_SPO2 |-> TRUE,
      ENABLE_RULE_UNRESPONSIVE |-> TRUE,
      ENABLE_RULE_SEIZURE_CRITICAL |-> TRUE,
      ENABLE_RULE_PROFUSE_BLEEDING |-> TRUE ]

WEIGHTS ==
    [ vital_low_bp |-> 2200000,
      vital_spo2_scale |-> 2800000,
      vital_hr_scale |-> 1200000,
      sym_chest_pain |-> 3000000,
      sym_sob |-> 2700000,
      sym_seizure |-> 3000000,
      sym_bleeding |-> 2000000,
      sym_unconscious |-> 4000000,
      sym_altered_mental |-> 1500000,
      severity_flag |-> 1000000,
      onset |-> 1500000,
      elderly |-> 800000,
      infant |-> 1000000,
      mod_count_unit |-> 200000,
      mod_count_cap |-> 1000000,
      hist_cardiac |-> 700000,
      hist_anticoagulant |-> 700000,
      recalib_min_chest_pain_hr |-> 5200000 ]

CRITICAL_SYMPTOMS == {"unconscious", "not responding", "unresponsive", "not breathing"}
SEIZURE_TERMS == {"seizure"}
BLEED_TERMS == {"bleeding"}
RESP_DISTRESS_TERMS == {"shortness of breath"}
HEADACHE_TERMS == {"headache", "severe headache"}
CHEST_PAIN_TERMS == {"chest pain"}
FAINTING_TERMS == {"fainting", "fainted"}
ALTERED_MENTAL_TERMS == {"altered mental status"}

FEATURE_ORDER ==
    << "hr", "bp_systolic", "bp_diastolic", "spo2",
       "sym_chest_pain", "sym_sob", "sym_seizure", "sym_unconscious",
       "sym_bleeding", "sym_headache", "sym_fainting", "sym_altered_mental",
       "sev_any", "inv_onset", "age", "is_elderly", "is_infant", "mod_count",
       "hist_cardiac", "hist_anticoagulant" >>

\* `key in h.lower()` for the history strings the model draws.
HistoryHas(h, key) ==
    <<h, key>> \in { <<"cardiac disease", "cardiac">>,
                     <<"Heart disease", "heart disease">>,
                     <<"on blood thinner", "blood thinner">>,
                     <<"anticoagulant therapy", "anticoagulant">> }

HISTORY_KEYWORDS ==
    { <<"cardiac", "hist_cardiac">>, <<"heart disease", "hist_cardiac">>,
      <<"anticoagulant", "hist_anticoagulant">>,
      <<"blood thinner", "hist_anticoagulant">> }

\* ----------------------------- UTILITIES ------------------------------
clamp(v, lo, hi) == Max(lo, Min(hi, v))

\* A reason string: its fixed text, the number formatted into it (0 when the
\* text has none) and the term formatted into it ("" when it has none).
Reason(text, num, term) == [text |-> text, num |-> num, term |-> term]

\* (s.get("term") or "").lower(); the model's terms are lower case
TermOf(s) == s.term
\* (s.get("severity") or "").lower()
SeverityOf(s) == IF IsSome(s.severity) THEN Val(s.severity) ELSE ""

_symptom_present(symptoms, terms) ==
    \E i \in 1..Len(symptoms) : TermOf(symptoms[i]) \in terms

_any_severity(symptoms) ==
    \E i \in 1..Len(symptoms) : SeverityOf(symptoms[i]) \in {"severe", "critical"}

\* An absent vital encoded as a sentinel below every reading.
VitalOrSentinel(vitals, k) == IF IsSome(vitals[k]) THEN Val(vitals[k]) ELSE 0 - 1

\* vitals.get(k) or 0
VitalOr0(vitals, k) == IF IsSome(vitals[k]) THEN Val(vitals[k]) ELSE 0

Flag(b) == IF b THEN 1 ELSE 0

\* onset of the first symptom that has one, 9999 when none has
FirstOnset(symptoms) ==
    LET idx == {i \in 1..Len(symptoms) : IsSome(symptoms[i].onset_minutes)}
    IN  IF idx = {} THEN 9999
        ELSE Val(symptoms[CHOOSE i \in idx : \A j \in idx : i <= j].onset_minutes)

\* The vector is in FEATURE_ORDER; inv_onset (index 14) is in millionths,
\* the other entries are plain numbers.
extract_features(case_json) ==
    LET symptoms == case_json.symptoms
        vitals == case_json.vitals
        onset_any == FirstOnset(symptoms)
        inv_onset == Unit \div (1 + onset_any)
        age_val == IF IsSome(case_json.age) THEN Val(case_json.age) ELSE 0
        history == case_json.history
        hist(feat) == Flag(\E i \in 1..Len(history) : \E kw \in HISTORY_KEYWORDS :
                              kw[2] = feat /\ HistoryHas(history[i], kw[1]))
    IN  [ vector |->
            << VitalOr0(vitals, "hr"), VitalOr0(vitals, "bp_systolic"),
               VitalOr0(vitals, "bp_diastolic"), VitalOr0(vitals, "spo2"),
               Flag(_symptom_present(symptoms, CHEST_PAIN_TERMS)),
               Flag(_symptom_present(symptoms, RESP_DISTRESS_TERMS)),
               Flag(_symptom_present(symptoms, SEIZURE_TERMS)),
               Flag(_symptom_present(symptoms, CRITICAL_SYMPTOMS)),
               Flag(_symptom_present(symptoms, BLEED_TERMS)),
               Flag(_symptom_present(symptoms, HEADACHE_TERMS)),
               Flag(_symptom_present(symptoms, FAINTING_TERMS)),
               Flag(_symptom_present(symptoms, ALTERED_MENTAL_TERMS)),
               Flag(_any_severity(symptoms)),
               inv_onset,
               age_val, Flag(age_val >= 65), Flag(0 < age_val /\ age_val < 2),
               Len(case_json.modifiers),
               hist("hist_cardiac"), hist("hist_anticoagulant") >>,
          names |-> FEATURE_ORDER ]

\* ----------------------------- DETERMINISTIC RULES --------------------
\* The low systolic pressure and low SpO2 rules with limits shifted down.
LowVitalReasonsShifted(vitals, cfg) ==
    (IF cfg.ENABLE_RULE_LOW_BP /\ IsSome(vitals["bp_systolic"]) /\ Val(vitals["bp_systolic"]) < 70
     THEN << Reason("bp_systolic (critical)", Val(vitals["bp_systolic"]), "") >> ELSE << >>)
    \o (IF cfg.ENABLE_RULE_LOW_SPO2 /\ IsSome(vitals["spo2"]) /\ Val(vitals["spo2"]) < 75
        THEN << Reason("SpO2 % (critical)", Val(vitals["spo2"]), "") >> ELSE << >>)

\* The low systolic pressure and low SpO2 rules; None is not a number.
LowVitalReasons(vitals, cfg) ==
    (IF cfg.ENABLE_RULE_LOW_BP /\ IsSome(vitals["bp_systolic"]) /\ Val(vitals["bp_systolic"]) < 80
     THEN << Reason("bp_systolic (critical)", Val(vitals["bp_systolic"]), "") >> ELSE << >>)
    \o (IF cfg.ENABLE_RULE_LOW_SPO2 /\ IsSome(vitals["spo2"]) /\ Val(vitals["spo2"]) < 85
        THEN << Reason("SpO2 % (critical)", Val(vitals["spo2"]), "") >> ELSE << >>)

\* The seizure test reading the severity of every symptom entry.
SeizureCriticalAnySeverity(symptoms) ==
    LET seiz == {i \in 1..Len(symptoms) : TermOf(symptoms[i]) \in SEIZURE_TERMS}
    IN  \/ Cardinality(seiz) > 1
        \/ \E i \in 1..Len(symptoms) : SeverityOf(symptoms[i]) \in {"severe", "critical"}

\* The inner test of the seizure rule (lines 243-244): more than one
\* seizure entry, or a seizure entry whose severity is severe or critical.
SeizureCritical(symptoms) ==
    LET seiz == {i \in 1..Len(symptoms) : TermOf(symptoms[i]) \in SEIZURE_TERMS}
    IN  \/ Cardinality(seiz) > 1
        \/ \E i \in seiz : SeverityOf(symptoms[i]) \in {"severe", "critical"}

\* The rules with the seizure rule run ahead of the critical symptom rule.
check_critical_rulesSeizureFirst(case_json, cfg) ==
    LET symptoms == case_json.symptoms
        modifiers == case_json.modifiers
        crit[i \in 0..Len(symptoms)] ==
            IF i = 0 THEN << >>
            ELSE IF cfg.ENABLE_RULE_UNRESPONSIVE /\ TermOf(symptoms[i]) \in CRITICAL_SYMPTOMS
                 THEN Append(crit[i - 1], Reason("(critical symptom)", 0, TermOf(symptoms[i])))
                 ELSE crit[i - 1]
        seizure ==
            IF /\ cfg.ENABLE_RULE_SEIZURE_CRITICAL
               /\ _symptom_present(symptoms, SEIZURE_TERMS)
               /\ SeizureCritical(symptoms)
            THEN << Reason("seizure activity (critical)", 0, "") >>
            ELSE << >>
        bleeding ==
            IF /\ cfg.ENABLE_RULE_PROFUSE_BLEEDING
               /\ \E i \in 1..Len(symptoms) : TermOf(symptoms[i]) \in BLEED_TERMS
               /\ \E j \in 1..Len(modifiers) :
                      modifiers[j] \in {"profuse", "uncontrolled", "crashing"}
            THEN << Reason("severe bleeding (critical)", 0, "") >>
            ELSE << >>
    IN  Bind(LowVitalReasons(case_json.vitals, cfg) \o seizure \o crit[Len(symptoms)] \o bleeding,
             LAMBDA reasons : [fired |-> Len(reasons) > 0, reasons |-> reasons])

\* The reasons of the rules that fire, in the order the code appends them.
check_critical_rules(case_json, cfg) ==
    LET symptoms == case_json.symptoms
        modifiers == case_json.modifiers
        crit[i \in 0..Len(symptoms)] ==
            IF i = 0 THEN << >>
            ELSE IF cfg.ENABLE_RULE_UNRESPONSIVE /\ TermOf(symptoms[i]) \in CRITICAL_SYMPTOMS
                 THEN Append(crit[i - 1], Reason("(critical symptom)", 0, TermOf(symptoms[i])))
                 ELSE crit[i - 1]
        seizure ==
            IF /\ cfg.ENABLE_RULE_SEIZURE_CRITICAL
               /\ _symptom_present(symptoms, SEIZURE_TERMS)
               /\ SeizureCritical(symptoms)
            THEN << Reason("seizure activity (critical)", 0, "") >>
            ELSE << >>
        bleeding ==
            IF /\ cfg.ENABLE_RULE_PROFUSE_BLEEDING
               /\ \E i \in 1..Len(symptoms) : TermOf(symptoms[i]) \in BLEED_TERMS
               /\ \E j \in 1..Len(modifiers) :
                      modifiers[j] \in {"profuse", "uncontrolled", "crashing"}
            THEN << Reason("severe bleeding (critical)", 0, "") >>
            ELSE << >>
    IN  Bind(LowVitalReasons(case_json.vitals, cfg) \o crit[Len(symptoms)] \o seizure \o bleeding,
             LAMBDA reasons : [fired |-> Len(reasons) > 0, reasons |-> reasons])

\* ----------------------------- HEURISTIC SCORING ----------------------
\* dict(zip(features.names, features.vector))[name]
FeatureValue(features, name) ==
    features.vector[CHOOSE i \in 1..Len(features.names) : features.names[i] = name]

\* Reasons with later repeats removed, first occurrence kept.
Dedup(reasons) ==
    LET first == {i \in 1..Len(reasons) : \A j \in 1..(i - 1) : reasons[j] # reasons[i]}
        nth(k) == CHOOSE i \in first : Cardinality({j \in first : j <= i}) = k
    IN  [k \in 1..Cardinality(first) |-> reasons[nth(k)]]

\* A contribution added whether or not its condition holds.
ContributionUnconditional(cond, amount, reasons) == [add |-> amount, reasons |-> reasons]

\* One contribution: the amount added to the score and the reasons appended.
Contribution(cond, amount, reasons) ==
    IF cond THEN [add |-> amount, reasons |-> reasons] ELSE [add |-> 0, reasons |-> << >>]

\* The floor set to the weight of the chest pain symptom.
RecalibFloorChestPainWeight(W) == W.sym_chest_pain

\* The floor applied to a chest-pain + tachycardia score.
RecalibFloor(W) == W.recalib_min_chest_pain_hr

\* The contributions of heuristic_score in the order the code adds them.
HeuristicParts(features) ==
    LET v(name) == FeatureValue(features, name)
        W == WEIGHTS
    IN   << Contribution(v("bp_systolic") > 0 /\ v("bp_systolic") < 90, W.vital_low_bp,
                         << Reason("Low BP", v("bp_systolic"), "") >>),
            \* delta = (95 - spo2) / 10.0 ; clamp(delta * scale, 0, 3.2)
            Contribution(0 < v("spo2") /\ v("spo2") < 95,
                         clamp(((95 - v("spo2")) * W.vital_spo2_scale) \div 10, 0, 3200000),
                         << Reason("SpO2 %", v("spo2"), "") >>),
            \* min((hr - 100) / 30.0 * scale, 2.5)
            Contribution(v("hr") > 110,
                         Min(((v("hr") - 100) * W.vital_hr_scale) \div 30, 2500000),
                         << Reason("HR", v("hr"), "") >>),
            Contribution(v("sym_chest_pain") # 0, W.sym_chest_pain, << Reason("Chest pain", 0, "") >>),
            Contribution(v("sym_sob") # 0, W.sym_sob, << Reason("Respiratory distress", 0, "") >>),
            Contribution(v("sym_seizure") # 0, W.sym_seizure, << Reason("Seizure", 0, "") >>),
            Contribution(v("sym_bleeding") # 0, W.sym_bleeding, << Reason("Bleeding", 0, "") >>),
            Contribution(v("sym_unconscious") # 0, W.sym_unconscious, << Reason("Unresponsive", 0, "") >>),
            Contribution(v("sym_altered_mental") # 0, W.sym_altered_mental,
                         << Reason("Altered mental status", 0, "") >>),
            Contribution(v("sev_any") # 0, W.severity_flag, << Reason("Severity flag", 0, "") >>),
            \* score += inv_onset * W['onset'], always; the reason only if > 0.001
            \* (the product is taken in two steps to stay within 32-bit integers)
            [ add |-> (v("inv_onset") * (W.onset \div 1000)) \div 1000,
              reasons |-> IF v("inv_onset") > Unit \div 1000
                          THEN << Reason("Recent onset", 0, "") >> ELSE << >> ],
            Contribution(v("is_elderly") # 0, W.elderly, << Reason("Elderly", 0, "") >>),
            Contribution(v("is_infant") # 0, W.infant, << Reason("Infant", 0, "") >>),
            Contribution(v("mod_count") > 0,
                         Min(v("mod_count") * W.mod_count_unit, W.mod_count_cap),
                         << Reason("Multiple modifiers", 0, "") >>),
            Contribution(v("hist_cardiac") # 0, W.hist_cardiac, << Reason("Cardiac history", 0, "") >>),
            Contribution(v("hist_anticoagulant") # 0, W.hist_anticoagulant,
                         << Reason("Anticoagulant", 0, "") >>) >>

\* The running score and reasons after all contributions, then the
\* recalibration floor, the clamp, the deduplication and the cap of 6.
HeuristicTotal(features, parts) ==
    LET sum[i \in 0..Len(parts)] == IF i = 0 THEN 0 ELSE sum[i - 1] + parts[i].add
        rs[i \in 0..Len(parts)] == IF i = 0 THEN << >> ELSE rs[i - 1] \o parts[i].reasons
        W == WEIGHTS
    IN  Bind(sum[Len(parts)], LAMBDA score0 :
          LET recal == /\ FeatureValue(features, "sym_chest_pain") # 0
                       /\ FeatureValue(features, "hr") > 100
                       /\ score0 < RecalibFloor(W)
              score1 == IF recal THEN Max(score0, RecalibFloor(W)) ELSE score0
              reasons ==
                  IF recal
                  THEN Append(rs[Len(parts)],
                              Reason("Recalibrated (chest pain + tachycardia)", 0, ""))
                  ELSE rs[Len(parts)]
          IN  [ score |-> clamp(score1, CONFIG.MIN_SCORE, CONFIG.MAX_SCORE),
                reasons |-> Take(Bind(reasons, LAMBDA r : Dedup(r)), 6) ])

heuristic_score(features) ==
    Bind(HeuristicParts(features), LAMBDA parts : HeuristicTotal(features, parts))

\* ----------------------------- MODEL HANDLING -------------------------
\* What the world outside the process does during one call: whether the ML
\* backend imported (_MODEL_BACKEND), whether the artifact file exists,
\* whether joblib.load returns or raises, whether predict returns or raises,
\* the value predicted, and how many explanation strings the model yields.
Env(backend, exists, load_ok, predict_ok, pred, n_reasons) ==
    [ backend |-> backend, exists |-> exists, load_ok |-> load_ok,
      predict_ok |-> predict_ok, pred |-> pred, n_reasons |-> n_reasons ]

\* load_model: the model returned (0 is None), the cache and the number of
\* artifact loads afterwards, and why no model was returned.
load_model(cfg_skip_ml, cache, nloads, env) ==
    IF cfg_skip_ml
    THEN [model |-> 0, cache |-> cache, loads |-> nloads, why |-> "skip_ml"]
    ELSE IF cache.model # 0
    THEN [model |-> cache.model, cache |-> cache, loads |-> nloads, why |-> "cached"]
    ELSE IF env.backend /\ env.exists
    THEN IF env.load_ok
         THEN [ model |-> nloads + 1,
                cache |-> [model |-> nloads + 1, kind |-> "sklearn"],
                loads |-> nloads + 1, why |-> "loaded" ]
         ELSE [model |-> 0, cache |-> cache, loads |-> nloads, why |-> "load_raised"]
    ELSE [model |-> 0, cache |-> cache, loads |-> nloads, why |-> "missing"]

\* The n-th explanation string of the model ("name:val" in the source).
ModelReason(n) == Reason("model", n, "")

\* The placeholder confidence 0.75, in millionths.
ModelConfidence == 750000

\* model_score reporting a confidence although predict raised.
ModelPredictKeepsConfidence(lm, env) ==
    LET none(why) == [ score |-> None, confidence |-> None, reasons |-> << >>,
                       cache |-> lm.cache, loads |-> lm.loads, outcome |-> why ]
    IN  IF lm.model = 0 THEN none(lm.why)
        ELSE IF ~env.predict_ok
        THEN [none("predict_raised") EXCEPT !.confidence = Some(750000)]
        ELSE [ score |-> Some(clamp(env.pred, CONFIG.MIN_SCORE, CONFIG.MAX_SCORE)),
               confidence |-> Some(750000),
               reasons |-> [i \in 1..env.n_reasons |-> ModelReason(i)],
               cache |-> lm.cache, loads |-> lm.loads, outcome |-> "predicted" ]

\* model_score after load_model has answered lm.
ModelPredict(lm, env) ==
    LET none(why) == [ score |-> None, confidence |-> None, reasons |-> << >>,
                       cache |-> lm.cache, loads |-> lm.loads, outcome |-> why ]
    IN  IF lm.model = 0 THEN none(lm.why)
        ELSE IF ~env.predict_ok THEN none("predict_raised")
        ELSE [ score |-> Some(clamp(env.pred, CONFIG.MIN_SCORE, CONFIG.MAX_SCORE)),
               confidence |-> Some(ModelConfidence),
               reasons |-> [i \in 1..env.n_reasons |-> ModelReason(i)],
               cache |-> lm.cache, loads |-> lm.loads, outcome |-> "predicted" ]

model_score(features, cfg_skip_ml, cache, nloads, env) ==
    Bind(load_model(cfg_skip_ml, cache, nloads, env), LAMBDA lm : ModelPredict(lm, env))

\* ----------------------------- CATEGORY MAPPING -----------------------
\* The category with the urgent threshold lowered to 3.0.
map_categoryUrgentFromThree(score) ==
    IF score >= CONFIG.CRITICAL_THRESHOLD THEN "Critical"
    ELSE IF score >= 3000000 THEN "Urgent"
    ELSE "Non-Urgent"

map_category(score) ==
    IF score >= CONFIG.CRITICAL_THRESHOLD THEN "Critical"
    ELSE IF score >= CONFIG.URGENT_THRESHOLD THEN "Urgent"
    ELSE "Non-Urgent"

\* round(x, 2) of a score in millionths: to the nearest multiple of 10000,
\* a tie going to the even hundredth.
Round2(x) ==
    LET q == x \div 10000
        r == x % 10000
    IN  IF r < 5000 THEN q * 10000
        ELSE IF r > 5000 THEN (q + 1) * 10000
        ELSE IF q % 2 = 0 THEN q * 10000 ELSE (q + 1) * 10000

\* ----------------------------- MAIN API -------------------------------
\* The reasons of the model path with three model reasons kept.
MergeReasonsThree(heur_reasons, model_reasons) ==
    Take(heur_reasons, 3) \o Take(model_reasons, 3)

\* The reasons of the model path: top 3 heuristic reasons, top 2 model reasons.
MergeReasons(heur_reasons, model_reasons) ==
    Take(heur_reasons, 3) \o Take(model_reasons, 2)

\* The score the post-calibration safety net forces.
PostCalibScore == CONFIG.URGENT_THRESHOLD + 300000

\* The return on a rule hit with the model's placeholder confidence attached.
TriageOverrideWithConfidence(rules, cache, nloads) ==
    [ result |-> [ urgency_score |-> CONFIG.CRITICAL_OVERRIDE_SCORE,
                   category |-> map_category(CONFIG.CRITICAL_OVERRIDE_SCORE),
                   reasons |-> Take(rules.reasons, 4),
                   model_confidence |-> Some(750000) ],
      cache |-> cache, loads |-> nloads,
      rule_reasons |-> rules.reasons,
      features_run |-> FALSE, model_outcome |-> "not_called",
      heuristic_run |-> FALSE, postcal |-> FALSE,
      pre_score |-> CONFIG.CRITICAL_OVERRIDE_SCORE ]

\* The return of triage_case when a rule fired (lines 517-524).  result is
\* the dict returned; cache and loads are the module state afterwards; the
\* other fields record what the call did: which stages ran, the model
\* outcome, and the score before post-calibration.
TriageOverride(rules, cache, nloads) ==
    [ result |-> [ urgency_score |-> CONFIG.CRITICAL_OVERRIDE_SCORE,
                   category |-> map_category(CONFIG.CRITICAL_OVERRIDE_SCORE),
                   reasons |-> Take(rules.reasons, 4),
                   model_confidence |-> None ],
      cache |-> cache, loads |-> nloads,
      rule_reasons |-> rules.reasons,
      features_run |-> FALSE, model_outcome |-> "not_called",
      heuristic_run |-> FALSE, postcal |-> FALSE,
      pre_score |-> CONFIG.CRITICAL_OVERRIDE_SCORE ]

\* Steps 4 and after of triage_case (lines 538-567), given the model's
\* answer ms and the heuristic's answer heur.
TriageScored(case_json, ms, heur) ==
    LET model_used == IsSome(ms.score)
        score0 == IF model_used THEN Val(ms.score) ELSE heur.score
        reasons0 == IF model_used THEN MergeReasons(heur.reasons, ms.reasons)
                    ELSE heur.reasons
        has_chest == \E i \in 1..Len(case_json.symptoms) :
                         TermOf(case_json.symptoms[i]) \in CHEST_PAIN_TERMS
        hr_val == case_json.vitals["hr"]
    IN  Bind(clamp(score0, CONFIG.MIN_SCORE, CONFIG.MAX_SCORE), LAMBDA pre :
          Bind(has_chest /\ IsSome(hr_val) /\ Val(hr_val) > 100
                   /\ pre < CONFIG.URGENT_THRESHOLD, LAMBDA postcal :
            Bind(IF postcal THEN Max(pre, PostCalibScore) ELSE pre, LAMBDA final :
              [ result |-> [ urgency_score |-> Round2(final),
                             category |-> map_category(final),
                             reasons |->
                                 Take(IF postcal
                                      THEN Append(reasons0,
                                             Reason("Post-calibration: chest pain + tachycardia", 0, ""))
                                      ELSE reasons0, 6),
                             model_confidence |->
                                 IF IsSome(ms.confidence)
                                 THEN Some(Round2(Val(ms.confidence))) ELSE None ],
                cache |-> ms.cache, loads |-> ms.loads,
                rule_reasons |-> << >>,
                features_run |-> TRUE, model_outcome |-> ms.outcome,
                heuristic_run |-> TRUE, postcal |-> postcal,
                pre_score |-> pre ])))

\* model_score is called only when SKIP_ML is off (lines 534-536).
ModelStep(features, cfg, cache, nloads, env) ==
    IF ~cfg.SKIP_ML
    THEN model_score(features, cfg.SKIP_ML, cache, nloads, env)
    ELSE [ score |-> None, confidence |-> None, reasons |-> << >>,
           cache |-> cache, loads |-> nloads, outcome |-> "skip_ml" ]

triage_case(case_json, cfg, cache, nloads, env) ==
    Bind(check_critical_rules(case_json, cfg), LAMBDA rules :
      IF rules.fired
      THEN TriageOverride(rules, cache, nloads)
      ELSE Bind(extract_features(case_json), LAMBDA features :
             Bind(ModelStep(features, cfg, cache, nloads, env), LAMBDA ms :
               Bind(heuristic_score(features), LAMBDA heur :
                 TriageScored(case_json, ms, heur)))))

\* ----------------------------- INPUTS ---------------------------------
\* The longest symptom list of a case summary the model draws.
MaxSymptoms == 2
\* The most case summaries triaged in one run of the process.
MaxCalls == 2

Symptom(term, severity, onset) ==
    [term |-> term, severity |-> severity, onset_minutes |-> onset]

Vitals(hr, sys, dia, spo2) ==
    [hr |-> hr, bp_systolic |-> sys, bp_diastolic |-> dia, spo2 |-> spo2]

\* term and severity of the symptom entries drawn
SymptomKinds ==
    { <<t, None>> : t \in {"chest pain", "shortness of breath", "seizure",
                           "unconscious", "bleeding"} }
    \cup { <<"seizure", Some("severe")>> }

SeqsUpTo(S, n) == UNION { [1..k -> S] : k \in 0..n }

VitalsDrawn ==
    { Vitals(None, None, None, None),
      Vitals(Some(110), Some(120), Some(80), Some(96)),
      Vitals(None, Some(79), None, None),
      Vitals(None, None, None, Some(84)),
      Vitals(Some(100), Some(80), None, Some(85)),
      Vitals(Some(101), None, None, None),
      Vitals(Some(132), None, None, None),
      Vitals(Some(150), Some(85), Some(50), Some(86)) }

\* onset (the summarizer gives every entry of a summary the same onset),
\* modifiers, age and history
ContextsDrawn ==
    { [onset |-> None, modifiers |-> << >>, age |-> None, history |-> << >>],
      [onset |-> Some(79), modifiers |-> << >>, age |-> None, history |-> << >>],
      [onset |-> None, modifiers |-> << "profuse" >>, age |-> Some(65),
       history |-> << "Hypertension" >>],
      [onset |-> Some(4),
       modifiers |-> << "crushing", "heavy", "persistent", "severe", "sudden", "sweating" >>,
       age |-> Some(1), history |-> << "cardiac disease", "on blood thinner" >>] }

Case(kinds, vitals, ctx) ==
    [ symptoms |-> [i \in 1..Len(kinds) |-> Symptom(kinds[i][1], kinds[i][2], ctx.onset)],
      vitals |-> vitals, modifiers |-> ctx.modifiers,
      history |-> ctx.history, age |-> ctx.age ]

\* The cases of _demo_examples.
ExampleA == Case(<< <<"shortness of breath", None>>, <<"chest pain", None>> >>,
                 Vitals(Some(140), Some(70), Some(40), Some(82)),
                 [onset |-> None, modifiers |-> << "severe" >>, age |-> Some(65),
                  history |-> << "Hypertension" >>])
ExampleB == Case(<< <<"chest pain", None>> >>,
                 Vitals(Some(110), Some(120), Some(80), Some(96)),
                 [onset |-> None, modifiers |-> << "sudden" >>, age |-> Some(54),
                  history |-> << "smoker" >>])
ExampleC == Case(<< <<"headache", None>> >>,
                 Vitals(Some(78), Some(128), Some(82), Some(98)),
                 [onset |-> None, modifiers |-> << >>, age |-> Some(30), history |-> << >>])

\* A case on which every rule of check_critical_rules fires, with two
\* critical symptom entries.
CaseEveryRule ==
    Case(<< <<"unresponsive", None>>, <<"seizure", Some("severe")>>,
            <<"bleeding", None>>, <<"unconscious", None>> >>,
         Vitals(Some(140), Some(70), Some(40), Some(82)),
         [onset |-> None, modifiers |-> << "profuse" >>, age |-> Some(65),
          history |-> << "Hypertension" >>])

\* Symptom lists around the seizure rule: seizure entries with no severity,
\* with a severity that is a modifier word, with the two severities the rule
\* looks for, and another symptom that carries a severity.
SeizureKinds ==
    { <<"seizure", None>>, <<"seizure", Some("sudden")>>,
      <<"seizure", Some("severe")>>, <<"seizure", Some("critical")>>,
      <<"chest pain", Some("severe")>>, <<"headache", Some("critical")>> }

SeizureCases ==
    { Case(k, Vitals(None, None, None, None), c) :
          k \in SeqsUpTo(SeizureKinds, MaxSymptoms),
          c \in { [onset |-> None, modifiers |-> m, age |-> None, history |-> << >>] :
                     m \in { << >>, << "severe" >> } } }

\* Ages on both sides of the infant and elderly limits; 0 is the age
\* summarize_event gives for an age in months under 12.
AgesDrawn == {0, 1, 2, 64, 65}

AgeCases ==
    { Case(k, v, [onset |-> None, modifiers |-> << >>, age |-> Some(a), history |-> << >>]) :
          k \in { << >>, << <<"headache", None>> >> },
          v \in { Vitals(None, None, None, None),
                  Vitals(Some(110), Some(120), Some(80), Some(96)) },
          a \in AgesDrawn }

Cases ==
    { Case(k, v, c) : k \in SeqsUpTo(SymptomKinds, MaxSymptoms),
                      v \in VitalsDrawn, c \in ContextsDrawn }
    \cup SeizureCases \cup AgeCases
    \cup {ExampleA, ExampleB, ExampleC, CaseEveryRule}

\* The requests served before the observed one: they matter to it only
\* through MODEL_CACHE.
EarlierCases == {ExampleB}

\* MaxCalls - 1 earlier requests, then the observed one.
Inboxes ==
    { e \o << c >> : e \in [1..(MaxCalls - 1) -> EarlierCases], c \in Cases }

\* The outcomes of the world during one call that the code tells apart;
\* the values predicted are below MIN_SCORE, just under the urgent
\* threshold, the critical threshold, and above MAX_SCORE.
EnvsDrawn ==
    { Env(FALSE, TRUE, TRUE, TRUE, 0, 1),      \* ML backend not importable
      Env(TRUE, FALSE, TRUE, TRUE, 0, 1),      \* artifact file missing
      Env(TRUE, TRUE, FALSE, TRUE, 0, 1),      \* joblib.load raises
      Env(TRUE, TRUE, TRUE, FALSE, 0, 1),      \* predict raises
      Env(TRUE, TRUE, TRUE, TRUE, 0 - 1000000, 4),
      Env(TRUE, TRUE, TRUE, TRUE, 3996000, 1),
      Env(TRUE, TRUE, TRUE, TRUE, 8500000, 4),
      Env(TRUE, TRUE, TRUE, TRUE, 12000000, 4) }

Configs == { CONFIG, [CONFIG EXCEPT !.SKIP_ML = TRUE] }

\* The switches of the five rules, in the order the rules run.
RULE_SWITCHES ==
    << "ENABLE_RULE_LOW_BP", "ENABLE_RULE_LOW_SPO2", "ENABLE_RULE_UNRESPONSIVE",
       "ENABLE_RULE_SEIZURE_CRITICAL", "ENABLE_RULE_PROFUSE_BLEEDING" >>

\* CONFIG with one rule switched off.
SwitchedConfigs == { [CONFIG EXCEPT ![RULE_SWITCHES[r]] = FALSE] : r \in 1..5 }

\* The cases served under a switched configuration: those with the
\* bleeding modifier, and the two on which several rules fire.
SwitchedInboxes ==
    { e \o << c >> : e \in [1..(MaxCalls - 1) -> EarlierCases],
                     c \in { x \in Cases : x.modifiers = << "profuse" >> }
                              \cup {ExampleA} }

\* ----------------------------- TRIAGE SPEC ----------------------------
InitTriage ==
    /\ ServiceAtRest
    /\ SNOMED_MAP = SNOMED_MAP_AT_IMPORT
    /\ requests = << >>
    /\ summ = None
    /\ \/ config \in Configs /\ inbox \in Inboxes
       \/ config \in SwitchedConfigs /\ inbox \in SwitchedInboxes
    /\ MODEL_CACHE = [model |-> 0, kind |-> "None"]
    /\ loads = 0
    /\ tri = None
    /\ world = [exists |-> TRUE, load_ok |-> TRUE]
    /\ pc = << >>
    /\ local = << >>
    /\ _MODEL_WRAPPER = 0
    /\ wrappers = << >>
    /\ made = [wrappers |-> 0, nlp |-> 0, models |-> 0]

\* One call of triage_case on the next case summary.  tri records the
\* observed call, the last of the inbox: the case, what the world did during
\* the call (env), the module state before, and everything triage_case
\* yields (out).
Serve ==
    /\ inbox # << >>
    /\ \E env \in EnvsDrawn :
         \E out \in {triage_case(Head(inbox), config, MODEL_CACHE, loads, env)} :
             /\ MODEL_CACHE' = out.cache
             /\ loads' = out.loads
             /\ tri' = IF Len(inbox) = 1
                       THEN Some([ case |-> Head(inbox), env |-> env,
                                   cache_before |-> MODEL_CACHE, out |-> out ])
                       ELSE tri
    /\ inbox' = Tail(inbox)
    /\ UNCHANGED <<serviceVars, summaryVars, config, loaderVars>>

NextTriage == Serve

SpecTriage == InitTriage /\ [][NextTriage]_vars

\* ----------------------------- CONCURRENT FIRST USE ------------------
\* Requests that run in parallel and use a loader for the first time.
MaxThreads == 2
Threads == 1..MaxThreads

\* What a thread runs: triage.load_model (through model_score), or
\* modeling.get_model_wrapper followed by wrapper.predict's ensure_loaded.
Entry == {"lm_check", "gw_check"}

Worlds == [exists : BOOLEAN, load_ok : BOOLEAN]

NewWrapper == [nlp |-> 0, model |-> 0, ready |-> FALSE]

InitCache ==
    /\ ServiceAtRest
    /\ SNOMED_MAP = SNOMED_MAP_AT_IMPORT
    /\ requests = << >>
    /\ summ = None
    /\ config \in Configs
    /\ MODEL_CACHE = [model |-> 0, kind |-> "None"]
    /\ loads = 0
    /\ inbox = << >>
    /\ tri = None
    /\ world \in Worlds
    /\ pc \in [Threads -> Entry]
    /\ local = [t \in Threads |-> [model |-> 0, w |-> 0, met |-> "", outcome |-> ""]]
    /\ _MODEL_WRAPPER = 0
    /\ wrappers = [i \in Threads |-> NewWrapper]
    /\ made = [wrappers |-> 0, nlp |-> 0, models |-> 0]

\* Thread t moves to statement l.
Goto(t, l) == pc' = [pc EXCEPT ![t] = l]

\* Thread t leaves the loader: met is what it ran into, outcome what its
\* request gets ("model": a model to predict with; "fallback": the
\* heuristic or fallback answer; "fatal": an error response).
Leave(t, met, outcome) ==
    /\ pc' = [pc EXCEPT ![t] = "done"]
    /\ local' = [local EXCEPT ![t].met = met, ![t].outcome = outcome]

\* triage.py 329-332: the SKIP_ML test and the cache test.
LmCheck(t) ==
    /\ pc[t] = "lm_check"
    /\ IF config.SKIP_ML
       THEN Leave(t, "skip_ml", "fallback")
       ELSE IF MODEL_CACHE.model # 0
       THEN /\ pc' = [pc EXCEPT ![t] = "done"]
            /\ local' = [local EXCEPT ![t].model = MODEL_CACHE.model,
                                      ![t].met = "cached", ![t].outcome = "model"]
       ELSE Goto(t, "lm_exists") /\ UNCHANGED local
    /\ UNCHANGED <<serviceVars, summaryVars, config, MODEL_CACHE, loads, inbox, tri, world,
                   _MODEL_WRAPPER, wrappers, made>>

\* triage.py 333-334 and 342: os.path.exists(path).
LmExists(t) ==
    /\ pc[t] = "lm_exists"
    /\ IF world.exists
       THEN Goto(t, "lm_load") /\ UNCHANGED local
       ELSE Leave(t, "missing", "fallback")
    /\ UNCHANGED <<serviceVars, summaryVars, config, MODEL_CACHE, loads, inbox, tri, world,
                   _MODEL_WRAPPER, wrappers, made>>

\* triage.py 335-336 and 340-341: joblib.load returns a new model object,
\* or raises and the except clause returns None.
LmLoad(t) ==
    /\ pc[t] = "lm_load"
    /\ IF world.load_ok
       THEN /\ loads' = loads + 1
            /\ local' = [local EXCEPT ![t].model = loads + 1]
            /\ Goto(t, "lm_store")
       ELSE /\ Leave(t, "load_error", "fallback")
            /\ UNCHANGED loads
    /\ UNCHANGED <<serviceVars, summaryVars, config, MODEL_CACHE, inbox, tri, world,
                   _MODEL_WRAPPER, wrappers, made>>

\* triage.py 337-339: the cache is assigned the loaded model.
LmStore(t) ==
    /\ pc[t] = "lm_store"
    /\ MODEL_CACHE' = [model |-> local[t].model, kind |-> "sklearn"]
    /\ Leave(t, "loaded", "model")
    /\ UNCHANGED <<serviceVars, summaryVars, config, loads, inbox, tri, world, _MODEL_WRAPPER, wrappers, made>>

\* modeling.py 251: if _MODEL_WRAPPER is None.
GwCheck(t) ==
    /\ pc[t] = "gw_check"
    /\ IF _MODEL_WRAPPER = 0 THEN Goto(t, "gw_new") ELSE Goto(t, "gw_return")
    /\ UNCHANGED <<serviceVars, summaryVars, config, MODEL_CACHE, loads, inbox, tri, world, local,
                   _MODEL_WRAPPER, wrappers, made>>

\* modeling.py 252, right-hand side: SeverityModelWrapper() (38-44, which
\* reads the patterns file).
GwNew(t) ==
    /\ pc[t] = "gw_new"
    /\ made' = [made EXCEPT !.wrappers = made.wrappers + 1]
    /\ local' = [local EXCEPT ![t].w = made.wrappers + 1]
    /\ Goto(t, "gw_assign")
    /\ UNCHANGED <<serviceVars, summaryVars, config, MODEL_CACHE, loads, inbox, tri, world,
                   _MODEL_WRAPPER, wrappers>>

\* modeling.py 252, the assignment to the global.
GwAssign(t) ==
    /\ pc[t] = "gw_assign"
    /\ _MODEL_WRAPPER' = local[t].w
    /\ Goto(t, "gw_return")
    /\ UNCHANGED <<serviceVars, summaryVars, config, MODEL_CACHE, loads, inbox, tri, world, local,
                   wrappers, made>>

\* modeling.py 253: return _MODEL_WRAPPER (the global is read again).
GwReturn(t) ==
    /\ pc[t] = "gw_return"
    /\ local' = [local EXCEPT ![t].w = _MODEL_WRAPPER]
    /\ Goto(t, "el_check")
    /\ UNCHANGED <<serviceVars, summaryVars, config, MODEL_CACHE, loads, inbox, tri, world,
                   _MODEL_WRAPPER, wrappers, made>>

\* modeling.py 94-95: if self._model is not None: return.
ElCheck(t) ==
    /\ pc[t] = "el_check"
    /\ IF wrappers[local[t].w].model # 0
       THEN Leave(t, "cached", "model")
       ELSE Goto(t, "el_exists") /\ UNCHANGED local
    /\ UNCHANGED <<serviceVars, summaryVars, config, MODEL_CACHE, loads, inbox, tri, world,
                   _MODEL_WRAPPER, wrappers, made>>

\* modeling.py 96-97: missing artifacts raise ModelNotTrained, which
\* main.summarize (45-47) catches to answer with a fallback.
ElExists(t) ==
    /\ pc[t] = "el_exists"
    /\ IF world.exists
       THEN Goto(t, "el_nlp") /\ UNCHANGED local
       ELSE Leave(t, "missing", "fallback")
    /\ UNCHANGED <<serviceVars, summaryVars, config, MODEL_CACHE, loads, inbox, tri, world,
                   _MODEL_WRAPPER, wrappers, made>>

\* modeling.py 101-105: self._nlp is given a new pipeline.
ElNlp(t) ==
    /\ pc[t] = "el_nlp"
    /\ made' = [made EXCEPT !.nlp = made.nlp + 1]
    /\ wrappers' = [wrappers EXCEPT ![local[t].w].nlp = made.nlp + 1]
    /\ Goto(t, "el_model")
    /\ UNCHANGED <<serviceVars, summaryVars, config, MODEL_CACHE, loads, inbox, tri, world, local,
                   _MODEL_WRAPPER>>

\* modeling.py 106: self._model = joblib.load(MODEL_PATH); an exception
\* leaves ensure_loaded and predict, and main.summarize (140-142) answers
\* HTTP 500.
ElModel(t) ==
    /\ pc[t] = "el_model"
    /\ IF world.load_ok
       THEN /\ made' = [made EXCEPT !.models = made.models + 1]
            /\ wrappers' = [wrappers EXCEPT ![local[t].w].model = made.models + 1]
            /\ Goto(t, "el_rest")
            /\ UNCHANGED local
       ELSE /\ Leave(t, "load_error", "fatal")
            /\ UNCHANGED <<made, wrappers>>
    /\ UNCHANGED <<serviceVars, summaryVars, config, MODEL_CACHE, loads, inbox, tri, world, _MODEL_WRAPPER>>

\* modeling.py 107-113: vectorizer, feature names and thresholds.
ElRest(t) ==
    /\ pc[t] = "el_rest"
    /\ wrappers' = [wrappers EXCEPT ![local[t].w].ready = TRUE]
    /\ Leave(t, "loaded", "model")
    /\ UNCHANGED <<serviceVars, summaryVars, config, MODEL_CACHE, loads, inbox, tri, world,
                   _MODEL_WRAPPER, made>>

LmCheckStep == \E t \in Threads : LmCheck(t)
LmExistsStep == \E t \in Threads : LmExists(t)
LmLoadStep == \E t \in Threads : LmLoad(t)
LmStoreStep == \E t \in Threads : LmStore(t)
GwCheckStep == \E t \in Threads : GwCheck(t)
GwNewStep == \E t \in Threads : GwNew(t)
GwAssignStep == \E t \in Threads : GwAssign(t)
GwReturnStep == \E t \in Threads : GwReturn(t)
ElCheckStep == \E t \in Threads : ElCheck(t)
ElExistsStep == \E t \in Threads : ElExists(t)
ElNlpStep == \E t \in Threads : ElNlp(t)
ElModelStep == \E t \in Threads : ElModel(t)
ElRestStep == \E t \in Threads : ElRest(t)

NextCache ==
    \/ LmCheckStep \/ LmExistsStep \/ LmLoadStep \/ LmStoreStep
    \/ GwCheckStep \/ GwNewStep \/ GwAssignStep \/ GwReturnStep
    \/ ElCheckStep \/ ElExistsStep \/ ElNlpStep \/ ElModelStep \/ ElRestStep

SpecCache == InitCache /\ [][NextCache]_vars

\* ----------------------------- LOADER PROPERTIES ----------------------
\* C5: under concurrent first use each lazily initialised cache is
\* populated at most once: the triage artifact is loaded at most once, at
\* most one wrapper instance is created, and the wrapper's NLP handle and
\* model are loaded at most once.  (Every load yields a new object, so a
\* cached value can be replaced only after a second load or creation.)
C5_PopulatedAtMostOnce ==
    /\ loads <= 1
    /\ made.wrappers <= 1
    /\ made.nlp <= 1
    /\ made.models <= 1

\* C7: a thread that met a missing artifact gets the fallback answer, and
\* a thread whose artifact load raised gets an error response, not the
\* fallback answer.
C7_LoadErrorsAreFatal ==
    \A t \in Threads :
        pc[t] = "done"
        => /\ local[t].met = "missing" => local[t].outcome = "fallback"
           /\ local[t].met = "load_error" => local[t].outcome = "fatal"

\* ----------------------------- TEXT ------------------------------------
\* A text (Python str) is a sequence of characters, each a one-character
\* string; "rsquo" is the right single quotation mark U+2019 and "\t" a tab.
\* Offsets are Python's: the first character is at offset 0.

\* The characters of the phrases the summarizer's tables hold.
Chars ==
       "shortness of breath" :> << "s", "h", "o", "r", "t", "n", "e", "s", "s", " ", "o", "f", " ", "b", "r", "e", "a", "t", "h" >>
    @@ "can't breathe" :> << "c", "a", "n", "'", "t", " ", "b", "r", "e", "a", "t", "h", "e" >>
    @@ "cannot breathe" :> << "c", "a", "n", "n", "o", "t", " ", "b", "r", "e", "a", "t", "h", "e" >>
    @@ "difficulty breathing" :> << "d", "i", "f", "f", "i", "c", "u", "l", "t", "y", " ", "b", "r", "e", "a", "t", "h", "i", "n", "g" >>
    @@ "chest pain" :> << "c", "h", "e", "s", "t", " ", "p", "a", "i", "n" >>
    @@ "severe headache" :> << "s", "e", "v", "e", "r", "e", " ", "h", "e", "a", "d", "a", "c", "h", "e" >>
    @@ "headache" :> << "h", "e", "a", "d", "a", "c", "h", "e" >>
    @@ "not responding" :> << "n", "o", "t", " ", "r", "e", "s", "p", "o", "n", "d", "i", "n", "g" >>
    @@ "unconscious" :> << "u", "n", "c", "o", "n", "s", "c", "i", "o", "u", "s" >>
    @@ "seizure" :> << "s", "e", "i", "z", "u", "r", "e" >>
    @@ "bleeding" :> << "b", "l", "e", "e", "d", "i", "n", "g" >>
    @@ "fainting" :> << "f", "a", "i", "n", "t", "i", "n", "g" >>
    @@ "fainted" :> << "f", "a", "i", "n", "t", "e", "d" >>
    @@ "sob" :> << "s", "o", "b" >>
    @@ "passed out" :> << "p", "a", "s", "s", "e", "d", " ", "o", "u", "t" >>
    @@ "loss of consciousness" :> << "l", "o", "s", "s", " ", "o", "f", " ", "c", "o", "n", "s", "c", "i", "o", "u", "s", "n", "e", "s", "s" >>
    @@ "gasping for air" :> << "g", "a", "s", "p", "i", "n", "g", " ", "f", "o", "r", " ", "a", "i", "r" >>
    @@ "gasping" :> << "g", "a", "s", "p", "i", "n", "g" >>
    @@ "struggling to breathe" :> << "s", "t", "r", "u", "g", "g", "l", "i", "n", "g", " ", "t", "o", " ", "b", "r", "e", "a", "t", "h", "e" >>
    @@ "confused" :> << "c", "o", "n", "f", "u", "s", "e", "d" >>
    @@ "eyes rolling" :> << "e", "y", "e", "s", " ", "r", "o", "l", "l", "i", "n", "g" >>
    @@ "disoriented" :> << "d", "i", "s", "o", "r", "i", "e", "n", "t", "e", "d" >>
    @@ "lethargic" :> << "l", "e", "t", "h", "a", "r", "g", "i", "c" >>
    @@ "dazed" :> << "d", "a", "z", "e", "d" >>
    @@ "about to pass out" :> << "a", "b", "o", "u", "t", " ", "t", "o", " ", "p", "a", "s", "s", " ", "o", "u", "t" >>
    @@ "could go out" :> << "c", "o", "u", "l", "d", " ", "g", "o", " ", "o", "u", "t" >>
    @@ "no" :> << "n", "o" >>
    @@ "denies" :> << "d", "e", "n", "i", "e", "s" >>
    @@ "without" :> << "w", "i", "t", "h", "o", "u", "t" >>
    @@ "not" :> << "n", "o", "t" >>
    @@ "absence of" :> << "a", "b", "s", "e", "n", "c", "e", " ", "o", "f" >>
    @@ "severe" :> << "s", "e", "v", "e", "r", "e" >>
    @@ "sudden" :> << "s", "u", "d", "d", "e", "n" >>
    @@ "radiating" :> << "r", "a", "d", "i", "a", "t", "i", "n", "g" >>
    @@ "crushing" :> << "c", "r", "u", "s", "h", "i", "n", "g" >>
    @@ "persistent" :> << "p", "e", "r", "s", "i", "s", "t", "e", "n", "t" >>
    @@ "profuse" :> << "p", "r", "o", "f", "u", "s", "e" >>
    @@ "heavy" :> << "h", "e", "a", "v", "y" >>
    @@ "uncontrolled" :> << "u", "n", "c", "o", "n", "t", "r", "o", "l", "l", "e", "d" >>
    @@ "faint" :> << "f", "a", "i", "n", "t" >>
    @@ "sweating" :> << "s", "w", "e", "a", "t", "i", "n", "g" >>
    @@ "diaphoretic" :> << "d", "i", "a", "p", "h", "o", "r", "e", "t", "i", "c" >>
    @@ "unresponsive" :> << "u", "n", "r", "e", "s", "p", "o", "n", "s", "i", "v", "e" >>
    @@ "clammy" :> << "c", "l", "a", "m", "m", "y" >>
    @@ "cold" :> << "c", "o", "l", "d" >>
    @@ "struggling" :> << "s", "t", "r", "u", "g", "g", "l", "i", "n", "g" >>
    @@ "crashing" :> << "c", "r", "a", "s", "h", "i", "n", "g" >>
    @@ "altered mental status" :> << "a", "l", "t", "e", "r", "e", "d", " ", "m", "e", "n", "t", "a", "l", " ", "s", "t", "a", "t", "u", "s" >>
    @@ "spo2" :> << "s", "p", "o", "2" >>
    @@ "oxygen" :> << "o", "x", "y", "g", "e", "n" >>
    @@ "o2" :> << "o", "2" >>
    @@ "for" :> << "f", "o", "r" >>
    @@ "since" :> << "s", "i", "n", "c", "e" >>
    @@ "minutes" :> << "m", "i", "n", "u", "t", "e", "s" >>
    @@ "minute" :> << "m", "i", "n", "u", "t", "e" >>
    @@ "mins" :> << "m", "i", "n", "s" >>
    @@ "min" :> << "m", "i", "n" >>
    @@ "hours" :> << "h", "o", "u", "r", "s" >>
    @@ "hour" :> << "h", "o", "u", "r" >>
    @@ "hrs" :> << "h", "r", "s" >>
    @@ "hr" :> << "h", "r" >>
    @@ "male" :> << "m", "a", "l", "e" >>
    @@ "female" :> << "f", "e", "m", "a", "l", "e" >>
    @@ "woman" :> << "w", "o", "m", "a", "n" >>
    @@ "man" :> << "m", "a", "n" >>
    @@ "girl" :> << "g", "i", "r", "l" >>
    @@ "boy" :> << "b", "o", "y" >>
    @@ "lady" :> << "l", "a", "d", "y" >>
    @@ "gentleman" :> << "g", "e", "n", "t", "l", "e", "m", "a", "n" >>
    @@ "m/f" :> << "m", "/", "f" >>
    @@ "years old" :> << "y", "e", "a", "r", "s", " ", "o", "l", "d" >>
    @@ "year old" :> << "y", "e", "a", "r", " ", "o", "l", "d" >>
    @@ "y/o" :> << "y", "/", "o" >>
    @@ "yo" :> << "y", "o" >>
    @@ "yr old" :> << "y", "r", " ", "o", "l", "d" >>
    @@ "yrs old" :> << "y", "r", "s", " ", "o", "l", "d" >>
    @@ "m old" :> << "m", " ", "o", "l", "d" >>
    @@ "month old" :> << "m", "o", "n", "t", "h", " ", "o", "l", "d" >>
    @@ "months old" :> << "m", "o", "n", "t", "h", "s", " ", "o", "l", "d" >>
    @@ "he" :> << "h", "e" >>
    @@ "she" :> << "s", "h", "e" >>
    @@ "they" :> << "t", "h", "e", "y" >>
    @@ "person" :> << "p", "e", "r", "s", "o", "n" >>
    @@ "guy" :> << "g", "u", "y" >>
    @@ "dude" :> << "d", "u", "d", "e" >>
    @@ "only" :> << "o", "n", "l", "y" >>

UpperToLower ==
    [ c \in {"A", "B", "C", "D", "E", "F", "G", "H", "I", "J", "K", "L", "M",
             "N", "O", "P", "Q", "R", "S", "T", "U", "V", "W", "X", "Y", "Z"} |->
      CASE c = "A" -> "a" [] c = "B" -> "b" [] c = "C" -> "c" [] c = "D" -> "d"
        [] c = "E" -> "e" [] c = "F" -> "f" [] c = "G" -> "g" [] c = "H" -> "h"
        [] c = "I" -> "i" [] c = "J" -> "j" [] c = "K" -> "k" [] c = "L" -> "l"
        [] c = "M" -> "m" [] c = "N" -> "n" [] c = "O" -> "o" [] c = "P" -> "p"
        [] c = "Q" -> "q" [] c = "R" -> "r" [] c = "S" -> "s" [] c = "T" -> "t"
        [] c = "U" -> "u" [] c = "V" -> "v" [] c = "W" -> "w" [] c = "X" -> "x"
        [] c = "Y" -> "y" [] c = "Z" -> "z" ]

\* str.lower()
Lower(text) ==
    [i \in 1..Len(text) |->
        IF text[i] \in DOMAIN UpperToLower THEN UpperToLower[text[i]] ELSE text[i]]

Letters ==
    {"a", "b", "c", "d", "e", "f", "g", "h", "i", "j", "k", "l", "m",
     "n", "o", "p", "q", "r", "s", "t", "u", "v", "w", "x", "y", "z"}
    \cup DOMAIN UpperToLower
Digits == {"0", "1", "2", "3", "4", "5", "6", "7", "8", "9"}

\* str.isalnum() of one character
IsAlnum(c) == c \in Letters \cup Digits
\* the regex class \w
IsWordChar(c) == IsAlnum(c) \/ c = "_"
\* the regex class \s
IsSpace(c) == c \in {" ", "\t", "\n"}

\* text[:limit]
_truncate(text) == Take(text, 320)

\* text.strip(), then runs of whitespace replaced by one space, after the
\* smart apostrophe is replaced by the plain one.
_normalize(text) ==
    Bind([i \in 1..Len(text) |-> IF text[i] = "rsquo" THEN "'" ELSE text[i]], LAMBDA q :
      \* the last character that is not whitespace, 0 when there is none
      Bind(Bind({j \in 1..Len(q) : ~IsSpace(q[j])}, LAMBDA inner :
             IF inner = {} THEN 0 ELSE CHOOSE i \in inner : \A j \in inner : j <= i), LAMBDA last :
        \* characters kept: those that are not whitespace, and the first
        \* whitespace of each run lying between two kept characters
        Bind(SelectSeq([i \in 1..Len(q) |-> i],
                       LAMBDA i : \/ ~IsSpace(q[i])
                                  \/ i > 1 /\ ~IsSpace(q[i - 1]) /\ i < last), LAMBDA keep :
          [k \in 1..Len(keep) |-> IF IsSpace(q[keep[k]]) THEN " " ELSE q[keep[k]]])))

\* sub occurs in text at offset pos
MatchAt(text, sub, pos) ==
    /\ pos >= 0
    /\ pos + Len(sub) <= Len(text)
    /\ sub = << >> \/ text[pos + 1] = sub[1]
    /\ SubSeq(text, pos + 1, pos + Len(sub)) = sub

\* the least element of a non-empty set of offsets, -1 for the empty set
LeastOr(ps) == IF ps = {} THEN 0 - 1 ELSE CHOOSE p \in ps : \A r \in ps : p <= r

\* text.find(sub, idx)
Find(text, sub, idx) ==
    Bind({p \in idx..(Len(text) - Len(sub)) : MatchAt(text, sub, p)},
         LAMBDA ps : LeastOr(ps))

\* text[lo:hi] for 0 <= lo <= hi
Slice(text, lo, hi) == SubSeq(text, lo + 1, Min(hi, Len(text)))

\* re.search(r"\b" + word + r"\b", text): word occurs with a word boundary
\* on both sides, the ends of text being boundaries.
SearchWord(text, word) ==
    \E p \in 0..(Len(text) - Len(word)) :
        /\ MatchAt(text, word, p)
        /\ p = 0 \/ ~IsWordChar(text[p])
        /\ p + Len(word) = Len(text) \/ ~IsWordChar(text[p + Len(word) + 1])

\* ----------------------------- SUMMARIZER TABLES ----------------------
\* phrase, canonical term; in the dict's iteration order
SYMPTOM_SYNONYMS ==
    << << "sob", "shortness of breath" >>,
       << "can't breathe", "shortness of breath" >>,
       << "cannot breathe", "shortness of breath" >>,
       << "difficulty breathing", "shortness of breath" >>,
       << "passed out", "fainted" >>,
       << "loss of consciousness", "unconscious" >> >>

SYMPTOM_PATTERNS ==
    << "shortness of breath", "can't breathe", "cannot breathe",
       "difficulty breathing", "chest pain", "severe headache", "headache",
       "not responding", "unconscious", "seizure", "bleeding", "fainting",
       "fainted" >>

\* sorted(set(MODIFIER_TERMS)): the order of the modifiers returned
MODIFIER_TERMS ==
    << "clammy", "cold", "confused", "crashing", "crushing", "diaphoretic",
       "faint", "gasping", "heavy", "not responding", "persistent", "profuse",
       "radiating", "severe", "struggling", "sudden", "sweating",
       "unconscious", "uncontrolled", "unresponsive" >>

\* phrase, canonical term, code; in the dict's iteration order
INFORMAL_SYMPTOMS ==
    << << "gasping for air", "shortness of breath", "SNOMED:267036007" >>,
       << "gasping", "shortness of breath", "SNOMED:267036007" >>,
       << "struggling to breathe", "shortness of breath", "SNOMED:267036007" >>,
       << "confused", "altered mental status", "SNOMED:419284004" >>,
       << "eyes rolling", "seizure", "SNOMED:91175000" >>,
       << "disoriented", "altered mental status", "SNOMED:419284004" >>,
       << "lethargic", "altered mental status", "SNOMED:419284004" >>,
       << "dazed", "altered mental status", "SNOMED:419284004" >>,
       << "about to pass out", "fainting", "SNOMED:271594007" >>,
       << "could go out", "fainting", "SNOMED:271594007" >> >>

NEGATION_CUES == << "no", "denies", "without", "not", "absence of" >>

SEVERITY_WORDS == << "severe", "sudden", "crushing", "persistent" >>

\* ----------------------------- SYMPTOM EXTRACTION --------------------
SymptomCandidate(term, start, end) ==
    [term |-> term, start |-> start, end |-> end, severity |-> None]

\* SymptomCandidate.canonical: term.lower(); every term of the tables is
\* lower case already.
canonical(s) == s.term

\* The inner loop of _find_symptoms for one pattern, from offset idx on.
RECURSIVE PatternMatches(_, _, _)
PatternMatches(lower, pattern, idx) ==
    Bind(Find(lower, Chars[pattern], idx), LAMBDA pos :
      IF pos = 0 - 1 THEN << >>
      ELSE (IF /\ pos = 0 \/ ~IsAlnum(lower[pos])
               /\ \/ pos + Len(Chars[pattern]) >= Len(lower)
                  \/ ~IsAlnum(lower[pos + Len(Chars[pattern]) + 1])
            THEN << SymptomCandidate(pattern, pos, pos + Len(Chars[pattern])) >>
            ELSE << >>)
           \o PatternMatches(lower, pattern, pos + Len(Chars[pattern])))

\* The outer loop of _find_symptoms: the matches of every pattern, in order.
RECURSIVE AllMatches(_, _)
AllMatches(lower, i) ==
    IF i > Len(SYMPTOM_PATTERNS) THEN << >>
    ELSE PatternMatches(lower, SYMPTOM_PATTERNS[i], 0) \o AllMatches(lower, i + 1)

\* found.sort(key=lambda c: (c.start, -len(c.term))), a stable sort.
SortFound(found) ==
    LET before(i, j) ==
            \/ found[i].start < found[j].start
            \/ /\ found[i].start = found[j].start
               /\ \/ Len(Chars[found[i].term]) > Len(Chars[found[j].term])
                  \/ /\ Len(Chars[found[i].term]) = Len(Chars[found[j].term])
                     /\ i < j
        rank(i) == 1 + Cardinality({j \in 1..Len(found) : before(j, i)})
    IN  [k \in 1..Len(found) |-> found[CHOOSE i \in 1..Len(found) : rank(i) = k]]

\* The overlap resolution of _find_symptoms: a candidate that starts before
\* the end of the last kept one is skipped.
RECURSIVE KeepLongest(_, _, _, _)
KeepLongest(sorted, i, filtered, last_end) ==
    IF i > Len(sorted) THEN filtered
    ELSE IF sorted[i].start < last_end
    THEN KeepLongest(sorted, i + 1, filtered, last_end)
    ELSE KeepLongest(sorted, i + 1, Append(filtered, sorted[i]), sorted[i].end)

_find_symptoms(text) ==
    Bind(Lower(text), LAMBDA lower :
      Bind(AllMatches(lower, 1), LAMBDA found :
        Bind(SortFound(found), LAMBDA sorted :
          KeepLongest(sorted, 1, << >>, 0 - 1))))

HasCanonical(symptoms, canon) ==
    \E k \in 1..Len(symptoms) : canonical(symptoms[k]) = canon

\* summarize_event 389-393: the synonym scan from entry i of the table on.
RECURSIVE SynonymScan(_, _, _)
SynonymScan(lower, i, symptoms) ==
    IF i > Len(SYMPTOM_SYNONYMS) THEN symptoms
    ELSE Bind(symptoms, LAMBDA sy :
           Bind(Find(lower, Chars[SYMPTOM_SYNONYMS[i][1]], 0), LAMBDA pos :
             IF pos # 0 - 1 /\ ~HasCanonical(sy, SYMPTOM_SYNONYMS[i][2])
             THEN SynonymScan(lower, i + 1,
                      Append(sy, SymptomCandidate(SYMPTOM_SYNONYMS[i][2], pos,
                                     pos + Len(Chars[SYMPTOM_SYNONYMS[i][1]]))))
             ELSE SynonymScan(lower, i + 1, sy)))

\* summarize_event 408-409: the code of canonical is registered if the
\* table has none for it.
Register(map, canonical_term, code) ==
    IF canonical_term \notin DOMAIN map THEN map @@ (canonical_term :> code) ELSE map

\* summarize_event 402-409: the informal-phrase scan from entry i of the
\* table on; acc is [symptoms, map].
RECURSIVE InformalScan(_, _, _)
InformalScan(lower_norm, i, acc) ==
    IF i > Len(INFORMAL_SYMPTOMS) THEN acc
    ELSE Bind(acc, LAMBDA a :
           Bind(Find(lower_norm, Chars[INFORMAL_SYMPTOMS[i][1]], 0), LAMBDA pos :
             IF pos # 0 - 1 /\ ~HasCanonical(a.symptoms, INFORMAL_SYMPTOMS[i][2])
             THEN InformalScan(lower_norm, i + 1,
                    [ symptoms |->
                          Append(a.symptoms,
                                 SymptomCandidate(INFORMAL_SYMPTOMS[i][2], pos,
                                     pos + Len(Chars[INFORMAL_SYMPTOMS[i][1]]))),
                      map |-> Register(a.map, INFORMAL_SYMPTOMS[i][2],
                                       INFORMAL_SYMPTOMS[i][3]) ])
             ELSE InformalScan(lower_norm, i + 1, a)))

\* ----------------------------- NEGATION, SEVERITY ---------------------
\* NEGATION_REGEX.search over the 10 characters before start.
NegatedAtNarrow(lower, start) ==
    Bind(Slice(lower, Max(0, start - 10), start), LAMBDA window :
      \E c \in 1..Len(NEGATION_CUES) : SearchWord(window, Chars[NEGATION_CUES[c]]))

\* _apply_negation_filter 361-363: NEGATION_REGEX.search over the 25
\* characters before start.
NegatedAt(lower, start) ==
    Bind(Slice(lower, Max(0, start - 25), start), LAMBDA window :
      \E c \in 1..Len(NEGATION_CUES) : SearchWord(window, Chars[NEGATION_CUES[c]]))

_apply_negation_filter(symptoms, text) ==
    Bind(Lower(text), LAMBDA lower :
      SelectSeq(symptoms, LAMBDA s : ~NegatedAt(lower, s.start)))

\* The severity of one symptom: the first severity word found in the 30
\* characters before it.
SeverityBefore(text, start) ==
    Bind(Lower(Slice(text, Max(0, start - 30), start)), LAMBDA window_text :
      LET hits == {k \in 1..Len(SEVERITY_WORDS) : SearchWord(window_text, Chars[SEVERITY_WORDS[k]])}
      IN  IF hits = {} THEN None
          ELSE Some(SEVERITY_WORDS[CHOOSE k \in hits : \A h \in hits : k <= h]))

\* _assign_severity_and_modifiers: [symptoms, modifiers]
_assign_severity_and_modifiers(symptoms, text) ==
    Bind(Lower(text), LAMBDA lower :
      [ symptoms |->
            [k \in 1..Len(symptoms) |->
                Bind(SeverityBefore(text, symptoms[k].start), LAMBDA sev :
                  IF IsSome(sev) THEN [symptoms[k] EXCEPT !.severity = sev]
                  ELSE symptoms[k])],
        modifiers |-> SelectSeq(MODIFIER_TERMS, LAMBDA m : SearchWord(lower, Chars[m])) ])

\* ----------------------------- NUMBERS IN TEXT ------------------------
IsDigit(c) == c \in Digits

DigitValue ==
    "0" :> 0 @@ "1" :> 1 @@ "2" :> 2 @@ "3" :> 3 @@ "4" :> 4
    @@ "5" :> 5 @@ "6" :> 6 @@ "7" :> 7 @@ "8" :> 8 @@ "9" :> 9

\* The regex anchor \b at offset p: exactly one of the characters before
\* and after the offset is a word character.
WordBoundary(text, p) ==
    (p > 0 /\ IsWordChar(text[p])) # (p < Len(text) /\ IsWordChar(text[p + 1]))

\* Where \d* started at offset p stops: the offset of the first character
\* at or after p that is not a digit.
RunEnd(text, p) ==
    LeastOr({q \in p..Len(text) : q = Len(text) \/ ~IsDigit(text[q + 1])})

\* Where \s* started at offset p stops.
SkipSpaces(text, p) ==
    LeastOr({q \in p..Len(text) : q = Len(text) \/ ~IsSpace(text[q + 1])})

\* int(text[lo:hi]) of a run of digits
RECURSIVE IntOf(_, _, _)
IntOf(text, lo, hi) ==
    IF hi <= lo THEN 0 ELSE IntOf(text, lo, hi - 1) * 10 + DigitValue[text[hi]]

\* The offsets where \b\d can match: a digit that no word character precedes.
NumberStarts(text) ==
    {p \in 0..(Len(text) - 1) : IsDigit(text[p + 1]) /\ WordBoundary(text, p)}

\* ----------------------------- INLINE VITALS --------------------------
\* BP_REGEX matched at offset p: two to three digits, a slash with optional
\* whitespace around it, two to three digits, a word boundary.
BpMatchAt(text, p) ==
    LET e == RunEnd(text, p)
        q == SkipSpaces(text, e)
        r == SkipSpaces(text, q + 1)
        f == RunEnd(text, r)
    IN  IF /\ e - p \in 2..3
           /\ q < Len(text)
           /\ text[q + 1] = "/"
           /\ r < Len(text)
           /\ f - r \in 2..3
           /\ WordBoundary(text, f)
        THEN Some(<< IntOf(text, p, e), IntOf(text, r, f) >>)
        ELSE None

\* BP_REGEX.search(text): the groups of the leftmost match
BP_REGEX(text) ==
    Bind({p \in NumberStarts(text) : IsSome(BpMatchAt(text, p))}, LAMBDA hits :
      IF hits = {} THEN None ELSE BpMatchAt(text, LeastOr(hits)))

\* The heart rate candidates without the numbers a slash follows.
HR_REGEXNotBeforeSlash(text) ==
    { IntOf(text, p, RunEnd(text, p)) :
        p \in {s \in NumberStarts(text) :
                  /\ RunEnd(text, s) - s \in 2..3
                  /\ WordBoundary(text, RunEnd(text, s))
                  /\ ~( /\ SkipSpaces(text, RunEnd(text, s)) < Len(text)
                        /\ text[SkipSpaces(text, RunEnd(text, s)) + 1] = "/" )} }

\* HR_REGEX.finditer(text): group 2 of every match.  The prefix group is
\* optional and holds no digit, so the matches are the numbers of two to
\* three digits standing between word boundaries.
HR_REGEX(text) ==
    { IntOf(text, p, RunEnd(text, p)) :
        p \in {s \in NumberStarts(text) :
                  /\ RunEnd(text, s) - s \in 2..3
                  /\ WordBoundary(text, RunEnd(text, s))} }

SPO2_KEYWORDS == << "spo2", "oxygen", "o2" >>

\* SPO2_REGEX matched at offset p of the lowered text: << value, end >>.
\* First alternative: a keyword, at most six characters that are not
\* digits, two to three digits, a percent sign.  Second alternative: a
\* number of two to three digits, a percent sign, a word boundary.
Spo2MatchAt(lower, p) ==
    LET kws == {k \in 1..Len(SPO2_KEYWORDS) : MatchAt(lower, Chars[SPO2_KEYWORDS[k]], p)}
        e == p + Len(Chars[SPO2_KEYWORDS[CHOOSE k \in kws : \A h \in kws : k <= h]])
        s == LeastOr({q \in e..(Len(lower) - 1) : IsDigit(lower[q + 1])})
        n == RunEnd(lower, s) - s
        m == RunEnd(lower, p) - p
    IN  IF /\ kws # {}
           /\ s >= e
           /\ s - e <= 6
           /\ n \in 2..3
           /\ s + n < Len(lower)
           /\ lower[s + n + 1] = "%"
        THEN Some(<< IntOf(lower, s, s + n), s + n + 1 >>)
        ELSE IF /\ p \in NumberStarts(lower)
                /\ m \in 2..3
                /\ p + m < Len(lower)
                /\ lower[p + m + 1] = "%"
                /\ WordBoundary(lower, p + m + 1)
        THEN Some(<< IntOf(lower, p, p + m), p + m + 1 >>)
        ELSE None

\* SPO2_REGEX.finditer(text): the values of the matches, found left to
\* right, each search starting where the previous match ended.
RECURSIVE SPO2_REGEX(_, _, _)
SPO2_REGEX(lower, p, acc) ==
    IF p >= Len(lower) THEN acc
    ELSE Bind(Spo2MatchAt(lower, p), LAMBDA m :
           IF IsSome(m)
           THEN Bind(acc \cup {Val(m)[1]}, LAMBDA a : SPO2_REGEX(lower, Val(m)[2], a))
           ELSE SPO2_REGEX(lower, p + 1, acc))

SetMax(S) == CHOOSE x \in S : \A y \in S : y <= x
SetMin(S) == CHOOSE x \in S : \A y \in S : x <= y

\* A dict without keys
EmptyDict == [k \in {} |-> 0]

\* The vitals parser keeping the lowest heart rate and the highest saturation.
_parse_inline_vitalsReversed(text) ==
    Bind(Lower(text), LAMBDA lower :
      LET bp_match == BP_REGEX(text)
          hr_values == {v \in HR_REGEX(text) : 30 <= v /\ v <= 250}
          spo2_values == {v \in SPO2_REGEX(lower, 0, {}) : 40 <= v /\ v <= 100}
      IN  (IF IsSome(bp_match)
           THEN "bp_systolic" :> Val(bp_match)[1] @@ "bp_diastolic" :> Val(bp_match)[2]
           ELSE EmptyDict)
          @@ (IF hr_values # {} THEN "hr" :> SetMin(hr_values) ELSE EmptyDict)
          @@ (IF spo2_values # {} THEN "spo2" :> SetMax(spo2_values) ELSE EmptyDict))

\* _parse_inline_vitals: the dict of the vitals read from the text
_parse_inline_vitals(text) ==
    Bind(Lower(text), LAMBDA lower :
      LET bp_match == BP_REGEX(text)
          hr_values == {v \in HR_REGEX(text) : 30 <= v /\ v <= 250}
          spo2_values == {v \in SPO2_REGEX(lower, 0, {}) : 40 <= v /\ v <= 100}
      IN  (IF IsSome(bp_match)
           THEN "bp_systolic" :> Val(bp_match)[1] @@ "bp_diastolic" :> Val(bp_match)[2]
           ELSE EmptyDict)
          @@ (IF hr_values # {} THEN "hr" :> SetMax(hr_values) ELSE EmptyDict)
          @@ (IF spo2_values # {} THEN "spo2" :> SetMin(spo2_values) ELSE EmptyDict))

\* ----------------------------- ONSET, AGE, SEX ------------------------
MinuteUnits == << "minutes", "minute", "mins", "min" >>
HourUnits == << "hours", "hour", "hrs", "hr" >>

\* one of the units stands at offset r and ends at a word boundary
UnitAt(lower, r, units) ==
    \E k \in 1..Len(units) :
        /\ MatchAt(lower, Chars[units[k]], r)
        /\ WordBoundary(lower, r + Len(Chars[units[k]]))

\* (\d{1,maxd})\s*(units)\b matched at offset s: the number
QuantityAt(lower, s, maxd, units) ==
    IF /\ s >= 0
       /\ s < Len(lower)
       /\ RunEnd(lower, s) - s \in 1..maxd
       /\ UnitAt(lower, SkipSpaces(lower, RunEnd(lower, s)), units)
    THEN Some(IntOf(lower, s, RunEnd(lower, s)))
    ELSE None

\* \b(\d{1,maxd})\s*(units)\b searched in the text: the number of the
\* leftmost match
FirstQuantity(lower, maxd, units) ==
    Bind({p \in NumberStarts(lower) : IsSome(QuantityAt(lower, p, maxd, units))},
         LAMBDA hits :
           IF hits = {} THEN None ELSE QuantityAt(lower, LeastOr(hits), maxd, units))

\* lead word, units, minutes per unit
ONSET_REGEXES ==
    << << "for", MinuteUnits, 1 >>, << "for", HourUnits, 60 >>,
       << "since", MinuteUnits, 1 >>, << "since", HourUnits, 60 >> >>

\* \b<lead>\s+(\d{1,4})\s*(units)\b matched at offset p: the number
OnsetMatchAt(lower, p, rx) ==
    LET e == p + Len(Chars[rx[1]])
    IN  IF /\ WordBoundary(lower, p)
           /\ MatchAt(lower, Chars[rx[1]], p)
           /\ SkipSpaces(lower, e) > e
        THEN QuantityAt(lower, SkipSpaces(lower, e), 4, rx[2])
        ELSE None

\* rx.search(text) for one of ONSET_REGEXES: the minutes of the leftmost match
OnsetSearch(lower, rx) ==
    Bind({p \in 0..(Len(lower) - 1) : IsSome(OnsetMatchAt(lower, p, rx))}, LAMBDA hits :
      IF hits = {} THEN None
      ELSE Some(Val(OnsetMatchAt(lower, LeastOr(hits), rx)) * rx[3]))

\* GENERIC_DURATION_REGEX.search(text), in minutes
GENERIC_DURATION_REGEX(lower) ==
    Bind({p \in NumberStarts(lower) :
             IsSome(QuantityAt(lower, p, 4, MinuteUnits \o HourUnits))}, LAMBDA hits :
      IF hits = {} THEN None
      ELSE LET p == LeastOr(hits)
           IN  IF IsSome(QuantityAt(lower, p, 4, HourUnits))
               THEN Some(Val(QuantityAt(lower, p, 4, HourUnits)) * 60)
               ELSE QuantityAt(lower, p, 4, MinuteUnits))

\* _parse_onset_minutes: the first of ONSET_REGEXES that matches decides,
\* the generic duration otherwise.
_parse_onset_minutes(text) ==
    Bind(Lower(text), LAMBDA lower :
      LET hits == {k \in 1..Len(ONSET_REGEXES) : IsSome(OnsetSearch(lower, ONSET_REGEXES[k]))}
      IN  IF hits # {}
          THEN OnsetSearch(lower, ONSET_REGEXES[CHOOSE k \in hits : \A h \in hits : k <= h])
          ELSE GENERIC_DURATION_REGEX(lower))

AGE_REGEX == << "years old", "year old", "y/o", "yo", "yr old", "yrs old" >>
AGE_SIMPLE_PREFIX == << "y/o", "yo" >>
AGE_COMPACT_REGEX == << "m old", "months old", "month old" >>

\* _extract_age
_extract_age(text) ==
    Bind(Lower(text), LAMBDA lower :
      LET a1 == FirstQuantity(lower, 3, AGE_REGEX)
          a2 == FirstQuantity(lower, 3, AGE_SIMPLE_PREFIX)
          m2 == FirstQuantity(lower, 2, AGE_COMPACT_REGEX)
      IN  IF IsSome(a1) /\ 0 < Val(a1) /\ Val(a1) < 125 THEN a1
          ELSE IF IsSome(a2) /\ 0 < Val(a2) /\ Val(a2) < 125 THEN a2
          ELSE IF IsSome(m2) /\ 0 < Val(m2) /\ Val(m2) < 24
               THEN Some(IF Val(m2) < 12 THEN 0 ELSE 1)
          ELSE None)

AGE_ONLY_WORDS == << "he", "she", "they", "person", "guy", "man", "woman" >>
AGE_INFORMAL_WORDS == << "he", "she", "guy", "man", "woman", "dude", "person" >>

\* the offset where the word of words that starts at offset p after a word
\* boundary ends, -1 when none does
WordEndAt(lower, p, words) ==
    IF ~WordBoundary(lower, p) THEN 0 - 1
    ELSE Bind({k \in 1..Len(words) : MatchAt(lower, Chars[words[k]], p)}, LAMBDA ks :
           IF ks = {} THEN 0 - 1
           ELSE p + Len(Chars[words[CHOOSE k \in ks : \A h \in ks : k <= h]]))

\* (\d{2})\b matched at offset s: the number
TwoDigitsAt(lower, s) ==
    IF /\ s >= 0
       /\ s < Len(lower)
       /\ RunEnd(lower, s) - s = 2
       /\ WordBoundary(lower, s + 2)
    THEN Some(IntOf(lower, s, s + 2))
    ELSE None

\* AGE_ONLY_PATTERN matched at offset p: a word, at most six characters
\* that are not digits, optionally "only" and whitespace, two digits.
AgeOnlyAt(lower, p) ==
    LET e == WordEndAt(lower, p, AGE_ONLY_WORDS)
        s == LeastOr({q \in e..(Len(lower) - 1) : IsDigit(lower[q + 1])})
        only == Chars["only"]
    IN  IF /\ e >= 0
           /\ s >= e
           /\ \/ s - e <= 6
              \/ \E j \in e..Min(e + 6, s - 1) :
                    /\ MatchAt(lower, only, j)
                    /\ j + Len(only) < s
                    /\ \A i \in (j + Len(only) + 1)..s : IsSpace(lower[i])
        THEN TwoDigitsAt(lower, s)
        ELSE None

\* AGE_INFORMAL_REGEX matched at offset p: a word, at most ten characters
\* that are not word characters, two digits.
AgeInformalAt(lower, p) ==
    LET e == WordEndAt(lower, p, AGE_INFORMAL_WORDS)
        s == LeastOr({q \in e..(Len(lower) - 1) : IsWordChar(lower[q + 1])})
    IN  IF e >= 0 /\ s >= e /\ s - e <= 10 /\ IsDigit(lower[s + 1])
        THEN TwoDigitsAt(lower, s)
        ELSE None

\* _informal_age
_informal_age(text) ==
    Bind(Lower(text), LAMBDA lower :
      LET h1 == {p \in 0..(Len(lower) - 1) : IsSome(AgeOnlyAt(lower, p))}
          m == IF h1 = {} THEN None ELSE AgeOnlyAt(lower, LeastOr(h1))
          h2 == {p \in 0..(Len(lower) - 1) : IsSome(AgeInformalAt(lower, p))}
          m2 == IF h2 = {} THEN None ELSE AgeInformalAt(lower, LeastOr(h2))
      IN  IF IsSome(m) /\ 1 < Val(m) /\ Val(m) < 120 THEN m
          ELSE IF IsSome(m2) /\ 1 < Val(m2) /\ Val(m2) < 120 THEN m2
          ELSE None)

\* the alternatives of SEX_REGEX and what _extract_sex makes of each
SEX_REGEX ==
    << << "male", "male" >>, << "female", "female" >>, << "woman", "female" >>,
       << "man", "male" >>, << "girl", "female" >>, << "boy", "male" >>,
       << "lady", "female" >>, << "gentleman", "male" >>, << "m/f", "" >> >>

\* SEX_REGEX matched at offset p: the index of the alternative, 0 for none
SexMatchAt(lower, p) ==
    IF ~WordBoundary(lower, p) THEN 0
    ELSE Bind({k \in 1..Len(SEX_REGEX) :
                  /\ MatchAt(lower, Chars[SEX_REGEX[k][1]], p)
                  /\ WordBoundary(lower, p + Len(Chars[SEX_REGEX[k][1]]))}, LAMBDA ks :
           IF ks = {} THEN 0 ELSE CHOOSE k \in ks : \A h \in ks : k <= h)

\* _extract_sex
_extract_sex(text) ==
    Bind(Lower(text), LAMBDA lower :
      Bind({p \in 0..(Len(lower) - 1) : SexMatchAt(lower, p) > 0}, LAMBDA hits :
        IF hits = {} THEN None
        ELSE LET token == SEX_REGEX[SexMatchAt(lower, LeastOr(hits))]
             IN  IF token[2] = "" THEN None ELSE Some(token[2])))

\* ----------------------------- SUMMARY ---------------------------------
\* _normalize_symptom: SYMPTOM_SYNONYMS.get(t, t)
_normalize_symptom(term) ==
    LET hits == {k \in 1..Len(SYMPTOM_SYNONYMS) : SYMPTOM_SYNONYMS[k][1] = term}
    IN  IF hits = {} THEN term ELSE SYMPTOM_SYNONYMS[CHOOSE k \in hits : TRUE][2]

\* _map_code: SNOMED_MAP.get(key)
_map_code(term, map) == IF term \in DOMAIN map THEN Some(map[term]) ELSE None

\* The code table read by the entries being the one the call was entered with.
TableAtLookupStale(on_entry, after_scan) == on_entry

\* The code table the entries of a call are looked up in: the module's
\* table as it is when the entries are built, after the informal scan.
TableAtLookup(on_entry, after_scan) == after_scan

\* summarize_event 416-423: when the text gives a systolic pressure below
\* 80 or a saturation below 85, every candidate without a severity gets
\* the severity "critical".
InferSeverity(symptoms, inline_vitals) ==
    LET get(key, default) ==
            IF key \in DOMAIN inline_vitals THEN inline_vitals[key] ELSE default
    IN  IF get("bp_systolic", 200) < 80 \/ get("spo2", 101) < 85
        THEN [k \in 1..Len(symptoms) |->
                 IF IsSome(symptoms[k].severity) THEN symptoms[k]
                 ELSE [symptoms[k] EXCEPT !.severity = Some("critical")]]
        ELSE symptoms

\* summarize_event 427-436: one entry per kept candidate.
SymptomEntries(symptoms, map, onset_minutes) ==
    [k \in 1..Len(symptoms) |->
        [ term |-> _normalize_symptom(symptoms[k].term),
          code |-> _map_code(_normalize_symptom(symptoms[k].term), map),
          severity |-> symptoms[k].severity,
          onset_minutes |-> onset_minutes ]]

\* The dedup loop with the severity of a later entry of the term always
\* written over the kept one.
DedupEntriesOverwriting(entries) ==
    LET first == {i \in 1..Len(entries) :
                     \A j \in 1..(i - 1) : entries[j].term # entries[i].term}
        nth(k) == CHOOSE i \in first : Cardinality({j \in first : j <= i}) = k
        merged(i) ==
            LET later == {j \in (i + 1)..Len(entries) :
                             /\ entries[j].term = entries[i].term
                             /\ IsSome(entries[j].severity)}
            IN  IF later = {} THEN entries[i]
                ELSE [entries[i] EXCEPT
                        !.severity = entries[CHOOSE j \in later : \A l \in later : j >= l].severity]
    IN  [k \in 1..Cardinality(first) |-> merged(nth(k))]

\* summarize_event 438-449: the first entry of each term, its severity
\* filled in from the first later entry of the term that has one.
DedupEntries(entries) ==
    LET first == {i \in 1..Len(entries) :
                     \A j \in 1..(i - 1) : entries[j].term # entries[i].term}
        nth(k) == CHOOSE i \in first : Cardinality({j \in first : j <= i}) = k
        merged(i) ==
            LET later == {j \in (i + 1)..Len(entries) :
                             /\ entries[j].term = entries[i].term
                             /\ IsSome(entries[j].severity)}
            IN  IF IsSome(entries[i].severity) \/ later = {} THEN entries[i]
                ELSE [entries[i] EXCEPT
                        !.severity = entries[CHOOSE j \in later : \A l \in later : j <= l].severity]
    IN  [k \in 1..Cardinality(first) |-> merged(nth(k))]

ALLOWED_VITALS == {"hr", "bp_systolic", "bp_diastolic", "spo2"}

\* The merge with the explicit vitals written over the inline ones.
CombinedVitalsCallerFirst(vitals, inline_vitals) ==
    LET explicit == IF IsSome(vitals)
                    THEN [k \in DOMAIN Val(vitals) \cap ALLOWED_VITALS |-> Val(vitals)[k]]
                    ELSE EmptyDict
        combined_vitals == explicit @@ inline_vitals
    IN  IF DOMAIN combined_vitals = {} THEN None ELSE Some(combined_vitals)

\* summarize_event 461-468: the allowed keys of the explicit vitals, then
\* the inline vitals written over them; None when the dict is empty.
CombinedVitals(vitals, inline_vitals) ==
    LET explicit == IF IsSome(vitals)
                    THEN [k \in DOMAIN Val(vitals) \cap ALLOWED_VITALS |-> Val(vitals)[k]]
                    ELSE EmptyDict
        combined_vitals == inline_vitals @@ explicit
    IN  IF DOMAIN combined_vitals = {} THEN None ELSE Some(combined_vitals)

\* summarize_event after the symptom scans (lines 395-470): found are the
\* candidates of the extraction stage, map_after the code table after the
\* informal scan.  The location field, the first match of a regular
\* expression over the text, is left out of the dict.
Summarized(norm, vitals, history, found, map_on_entry, map_after) ==
    Bind(_apply_negation_filter(found, norm), LAMBDA kept :
      Bind(_assign_severity_and_modifiers(kept, norm), LAMBDA tagged :
        Bind(_parse_inline_vitals(norm), LAMBDA inline_vitals :
          Bind(_extract_age(norm), LAMBDA formal_age :
            Bind(SymptomEntries(InferSeverity(tagged.symptoms, inline_vitals),
                                TableAtLookup(map_on_entry, map_after),
                                _parse_onset_minutes(norm)), LAMBDA symptom_entries :
              [ out |-> [ symptoms |-> DedupEntries(symptom_entries),
                          vitals |-> CombinedVitals(vitals, inline_vitals),
                          modifiers |-> tagged.modifiers,
                          history |-> IF IsSome(history) THEN Val(history) ELSE << >>,
                          age |-> IF IsSome(formal_age) THEN formal_age
                                  ELSE _informal_age(norm),
                          sex |-> _extract_sex(norm) ],
                map |-> map_after,
                norm |-> norm,
                found |-> found,
                kept |-> kept,
                inline_vitals |-> inline_vitals,
                symptom_entries |-> symptom_entries ])))))

\* summarize_event(text, vitals, history) run with the code table map:
\* the dict returned (out), the code table afterwards (map), and what the
\* call went through: the normalized text, the candidates of the
\* extraction stage (found), those left by the negation filter (kept),
\* the vitals read from the text and the entries before the dedup loop.
summarize_event(text, vitals, history, map) ==
    Bind(_normalize(_truncate(text)), LAMBDA norm :
      Bind(Lower(norm), LAMBDA lower :
        Bind(InformalScan(lower, 1,
                 [ symptoms |-> SynonymScan(lower, 1, _find_symptoms(norm)),
                   map |-> map ]), LAMBDA scan :
          Summarized(norm, vitals, history, scan.symptoms, map, scan.map))))

\* ----------------------------- SUMMARIZER INPUTS ----------------------
\* The most fragments a text drawn is made of.
MaxFrags == 3

\* The pieces the texts are made of: negation cues, symptom phrases of the
\* three tables, a severity word, a separator that makes runs of spaces,
\* and two fillers of 22 and 23 characters, which put a cue of a following
\* symptom just inside and just outside the 25-character window.
FragNo == << "n", "o", " " >>
FragDenies == << "D", "e", "n", "i", "e", "s", " " >>
FragAbsenceOf == << "a", "b", "s", "e", "n", "c", "e", " ", "o", "f", " " >>
FragChestPain == << "c", "h", "e", "s", "t", " ", "p", "a", "i", "n" >>
FragSevereHeadache == << "s", "e", "v", "e", "r", "e", " ", "h", "e", "a", "d", "a", "c", "h", "e" >>
FragCantBreathe == << "c", "a", "n", "rsquo", "t", " ", "b", "r", "e", "a", "t", "h", "e" >>
FragSob == << "s", "o", "b" >>
FragConfused == << "c", "o", "n", "f", "u", "s", "e", "d" >>
FragAnd == << " ", "a", "n", "d", " " >>
FragFiller22 == << "f", "e", "v", "e", "r", " ", "a", "n", "d", " ", "c", "o", "u", "g", "h", " ", "t", "o", "d", "a", "y", " " >>
FragFiller23 == << "f", "e", "v", "e", "r", " ", "a", "n", "d", " ", "c", "o", "u", "g", "h", ",", " ", "t", "o", "d", "a", "y", " " >>
FragSudden == << "S", "u", "d", "d", "e", "n", " " >>

Fragments ==
    { FragNo, FragDenies, FragAbsenceOf, FragChestPain,
      FragSevereHeadache, FragCantBreathe, FragSob, FragConfused,
      FragAnd, FragFiller22, FragFiller23, FragSudden }

RECURSIVE Concat(_)
Concat(fs) == IF fs = << >> THEN << >> ELSE Head(fs) \o Concat(Tail(fs))

Texts == { Concat(fs) : fs \in SeqsUpTo(Fragments, MaxFrags) }

\* The pieces of the texts that carry numbers: a blood pressure low enough
\* for the inferred severity, a heart rate and a saturation outside the
\* plausible ranges, a saturation inside them, and a second mention of
\* breathlessness with a severity word of its own.
FragBpLow == << "B", "P", " ", "7", "0", "/", "4", "0", " " >>
FragHr300 == << "h", "r", " ", "3", "0", "0", " " >>
FragSpo2 == << "s", "p", "o", "2", " ", "9", "5", "%", " " >>
FragOxygen20 == << "o", "x", "y", "g", "e", "n", " ", "2", "0", "%", " " >>
FragSevereSob == << " ", "s", "e", "v", "e", "r", "e", " ", "s", "o", "b" >>

VitalFragments ==
    { FragBpLow, FragHr300, FragSpo2, FragOxygen20, FragSevereSob, FragCantBreathe }

\* tests/test_summarize_basic.py EXAMPLE
EXAMPLE ==
    << "M", "a", "l", "e", " ", "7", "2", " ",
       "w", "i", "t", "h", " ", "c", "r", "u", "s", "h", "i", "n", "g", " ", "c", "h", "e", "s", "t", " ", "p", "a", "i", "n", " ", "f", "o", "r", " ", "3", "0", " ", "m", "i", "n", "u", "t", "e", "s", ",", " ", "d", "i", "a", "p", "h", "o", "r", "e", "t", "i", "c", ",", " ", "B", "P", " ", "8", "8", "/", "5", "2", ",", " ", "o", "x", "y", "g", "e", "n", " ", "8", "9", "%", "." >>

VitalTexts == {EXAMPLE} \cup { Concat(fs) : fs \in SeqsUpTo(VitalFragments, MaxFrags) }

\* The vitals and history arguments drawn: absent, or present with a key
\* the summary does not take over.
ArgsDrawn ==
    { [vitals |-> None, history |-> None],
      [vitals |-> Some("hr" :> 120 @@ "temp" :> 37), history |-> Some(<< "Hypertension" >>)] }

\* The arguments drawn for the texts that carry numbers: no vitals, all
\* four vitals with plausible values and a key the summary does not take
\* over, and a heart rate and a saturation no patient can have.
VitalArgsDrawn ==
    { [vitals |-> None, history |-> None],
      [vitals |-> Some("hr" :> 90 @@ "bp_systolic" :> 120 @@ "bp_diastolic" :> 80
                       @@ "spo2" :> 97 @@ "temp" :> 37), history |-> None],
      [vitals |-> Some("hr" :> 500 @@ "spo2" :> 150), history |-> None] }

Request(text, args) == [text |-> text, vitals |-> args.vitals, history |-> args.history]

\* Two durations, the one in hours mentioned first.
TextTwoDurations ==
    << "c", "h", "e", "s", "t", " ", "p", "a", "i", "n", " ", "f", "o", "r", " ", "2", " ", "h", "o", "u", "r", "s", " ", "w", "o", "r", "s", "e", " ", "f", "o", "r", " ", "3", "0", " ", "m", "i", "n" >>

\* A since-duration ahead of a for-duration.
TextSinceThenFor ==
    << "c", "h", "e", "s", "t", " ", "p", "a", "i", "n", " ", "s", "i", "n", "c", "e", " ", "5", " ", "m", "i", "n", " ", "n", "o", "w", " ", "f", "o", "r", " ", "2", " ", "h", "o", "u", "r", "s" >>

\* A bare duration ahead of a for-duration.
TextBareThenFor ==
    << "1", "0", " ", "m", "i", "n", "u", "t", "e", "s", " ", "a", "g", "o", " ", "c", "h", "e", "s", "t", " ", "p", "a", "i", "n", " ", "f", "o", "r", " ", "5", " ", "m", "i", "n" >>

\* A bare duration in hours.
TextBareHours ==
    << "c", "h", "e", "s", "t", " ", "p", "a", "i", "n", " ", "2", " ", "h", "r", "s" >>

\* Several heart rates and saturations, some outside the plausible ranges.
TextManyReadings ==
    << "h", "r", " ", "7", "2", " ", "p", "u", "l", "s", "e", " ", "1", "1", "0", " ", "b", "p", " ", "3", "0", "0", " ", "s", "p", "o", "2", " ", "9", "5", "%", " ", "o", "x", "y", "g", "e", "n", " ", "8", "8", "%", " ", "o", "2", " ", "3", "0", "%" >>

\* Chest pain and a blood pressure, no heart rate mentioned.
TextChestPainBp ==
    << "c", "h", "e", "s", "t", " ", "p", "a", "i", "n", " ", "B", "P", " ", "1", "3", "0", "/", "8", "5" >>

\* The word piano 28 characters before a symptom: the window of 25
\* characters begins at its letters "no".
TextPiano ==
    << "p", "i", "a", "n", "o", " ", "l", "e", "s", "s", "o", "n", " ", "e", "n", "d", "e", "d", " ", "a", "n", "d", " ", "t", "h", "e", "n", " ", "c", "h", "e", "s", "t", " ", "p", "a", "i", "n" >>

\* The same words with the whole of piano inside the window.
TextPianoNear ==
    << "p", "i", "a", "n", "o", " ", "l", "e", "s", "s", "o", "n", " ", "a", "n", "d", " ", "t", "h", "e", "n", " ", "c", "h", "e", "s", "t", " ", "p", "a", "i", "n" >>

\* Caller vitals low enough for the rule engine, none in the text.
LowVitalArgs == [vitals |-> Some("bp_systolic" :> 70 @@ "spo2" :> 80), history |-> None]

\* Single calls on texts and arguments chosen for one stage each: the
\* onset parser, the readings of the vitals parser, the window of the
\* negation filter, and the inferred severity.
ProbeRequests ==
    { Request(t, [vitals |-> None, history |-> None]) :
          t \in { TextTwoDurations, TextSinceThenFor, TextBareThenFor, TextBareHours,
                  TextManyReadings, TextChestPainBp, TextPiano, TextPianoNear } }
    \cup { Request(t, LowVitalArgs) :
              t \in { FragCantBreathe, FragSevereSob, FragChestPain \o << " " >> \o FragBpLow } }

\* The calls made before the observed one: they matter to it only through
\* SNOMED_MAP, which the first of them extends and the second does not.
EarlierRequests ==
    { Request(FragConfused, [vitals |-> None, history |-> None]),
      Request(FragChestPain, [vitals |-> None, history |-> None]) }

\* MaxCalls - 1 earlier calls, then the observed one; the texts that carry
\* numbers come after calls that leave SNOMED_MAP as it is.
RequestQueues ==
    { [k \in 1..(MaxCalls - 1) |-> Request(FragChestPain, [vitals |-> None, history |-> None])]
        \o << Request(t, a) >> :
        t \in VitalTexts, a \in VitalArgsDrawn }
    \cup
    { [k \in 1..(MaxCalls - 1) |-> Request(FragChestPain, [vitals |-> None, history |-> None])]
        \o << r >> : r \in ProbeRequests }
    \cup
    { e \o << Request(t, a) >> :
        e \in [1..(MaxCalls - 1) -> EarlierRequests], t \in Texts, a \in ArgsDrawn }

\* ----------------------------- SUMMARIZER SPEC -------------------------
InitSummarize ==
    /\ ServiceAtRest
    /\ SNOMED_MAP = SNOMED_MAP_AT_IMPORT
    /\ requests \in RequestQueues
    /\ summ = None
    /\ config = CONFIG
    /\ MODEL_CACHE = [model |-> 0, kind |-> "None"]
    /\ loads = 0
    /\ inbox = << >>
    /\ tri = None
    /\ world = [exists |-> TRUE, load_ok |-> TRUE]
    /\ pc = << >>
    /\ local = << >>
    /\ _MODEL_WRAPPER = 0
    /\ wrappers = << >>
    /\ made = [wrappers |-> 0, nlp |-> 0, models |-> 0]

\* One call of summarize_event on the next request.  summ records the
\* observed call, the last of the queue: its arguments, the code table
\* before it, and everything summarize_event yields (res).
Summarize ==
    /\ requests # << >>
    /\ \E res \in { summarize_event(Head(requests).text, Head(requests).vitals,
                                    Head(requests).history, SNOMED_MAP) } :
           /\ SNOMED_MAP' = res.map
           /\ summ' = IF Len(requests) = 1
                      THEN Some([ request |-> Head(requests),
                                  map_before |-> SNOMED_MAP, res |-> res ])
                      ELSE summ
    /\ requests' = Tail(requests)
    /\ UNCHANGED <<triageVars, loaderVars, serviceVars>>

NextSummarize == Summarize

SpecSummarize == InitSummarize /\ [][NextSummarize]_vars

\* ----------------------------- HTTP SERVICE: TEXT ----------------------
\* str.strip()
Strip(text) ==
    Bind({j \in 1..Len(text) : ~IsSpace(text[j])}, LAMBDA inner :
      IF inner = {} THEN << >> ELSE SubSeq(text, SetMin(inner), SetMax(inner)))

\* text.count('!')
CountExclaims(text) == Cardinality({j \in 1..Len(text) : text[j] = "!"})

\* The keywords of the fallback's 'hr' and 'spo2' patterns, in the order of
\* the alternation.
FALLBACK_HR_KEYWORDS ==
    << << "h", "e", "a", "r", "t", " ", "r", "a", "t", "e" >>,
       << "h", "r" >>,
       << "p", "u", "l", "s", "e" >> >>
FALLBACK_SPO2_KEYWORDS ==
    << << "s", "p", "o", "2" >>,
       << "o", "x", "y", "g", "e", "n" >>,
       << "o", "2" >> >>

\* [^\d]{0,6}(\d{2,3}) followed by the literal suffix, matched at offset e
\* of the lowered text: the number captured.  The digits are the first
\* two or three of the run when nothing has to follow them, the whole run
\* of two or three digits when the suffix has to.
NumberAfter(lower, e, suffix) ==
    LET s == LeastOr({q \in e..(Len(lower) - 1) : IsDigit(lower[q + 1])})
        run == RunEnd(lower, s) - s
    IN  IF s < e \/ s - e > 6 \/ run < 2 THEN None
        ELSE IF suffix = << >> THEN Some(IntOf(lower, s, s + Min(run, 3)))
        ELSE IF run <= 3 /\ MatchAt(lower, suffix, s + run)
        THEN Some(IntOf(lower, s, s + run))
        ELSE None

\* (?:k1|k2|k3)[^\d]{0,6}(\d{2,3})suffix matched at offset p
KeywordNumberAt(lower, p, keywords, suffix) ==
    LET ks == {k \in 1..Len(keywords) :
                  /\ MatchAt(lower, keywords[k], p)
                  /\ IsSome(NumberAfter(lower, p + Len(keywords[k]), suffix))}
    IN  IF ks = {} THEN None
        ELSE NumberAfter(lower, p + Len(keywords[SetMin(ks)]), suffix)

\* re.search of the case-insensitive keyword pattern: group 1 of the
\* leftmost match
KeywordNumberSearch(text, keywords, suffix) ==
    Bind(Lower(text), LAMBDA lower :
      Bind({p \in 0..(Len(lower) - 1) :
               IsSome(KeywordNumberAt(lower, p, keywords, suffix))}, LAMBDA hits :
        IF hits = {} THEN None
        ELSE KeywordNumberAt(lower, LeastOr(hits), keywords, suffix)))

\* What (unconscious|not? ?breathing|gasping|confused|collapse|seizing|shock)
\* can match, in the order the alternation and its greedy options try them.
URGENT_TERMS ==
    << << "u", "n", "c", "o", "n", "s", "c", "i", "o", "u", "s" >>,
       << "n", "o", "t", " ", "b", "r", "e", "a", "t", "h", "i", "n", "g" >>,
       << "n", "o", "t", "b", "r", "e", "a", "t", "h", "i", "n", "g" >>,
       << "n", "o", " ", "b", "r", "e", "a", "t", "h", "i", "n", "g" >>,
       << "n", "o", "b", "r", "e", "a", "t", "h", "i", "n", "g" >>,
       << "g", "a", "s", "p", "i", "n", "g" >>,
       << "c", "o", "n", "f", "u", "s", "e", "d" >>,
       << "c", "o", "l", "l", "a", "p", "s", "e" >>,
       << "s", "e", "i", "z", "i", "n", "g" >>,
       << "s", "h", "o", "c", "k" >> >>

\* The urgency pattern matched at offset p, between word boundaries: the
\* text matched, as it is written in the description.
UrgentTermAt(text, lower, p) ==
    LET ks == {k \in 1..Len(URGENT_TERMS) :
                  /\ MatchAt(lower, URGENT_TERMS[k], p)
                  /\ WordBoundary(lower, p + Len(URGENT_TERMS[k]))}
    IN  IF WordBoundary(lower, p) /\ ks # {}
        THEN Some(SubSeq(text, p + 1, p + Len(URGENT_TERMS[SetMin(ks)])))
        ELSE None

\* set(re.findall(urgency pattern, text)): the matches cannot overlap, each
\* lying between word boundaries, so every offset that matches is found.
UrgentTerms(text) ==
    Bind(Lower(text), LAMBDA lower :
      { Val(UrgentTermAt(text, lower, p)) :
          p \in {q \in 0..(Len(text) - 1) : IsSome(UrgentTermAt(text, lower, q))} })

\* ----------------------------- HTTP SERVICE: MODEL WRAPPER -------------
\* dict.get(key, default)
DictGet(dict, key, default) == IF key \in DOMAIN dict THEN dict[key] ELSE default

\* _basic_doc_features: the keys, in order
BASIC_FEATURES ==
    << "tok_count", "avg_tok_len", "ent_count", "num_ratio", "upper_ratio",
       "exclaim_count" >>

\* _embedding_features: the keys, in order
EMBEDDING_FEATURES ==
    << "emb_0", "emb_1", "emb_2", "emb_3", "emb_4", "emb_5", "emb_6", "emb_7",
       "emb_8", "emb_9", "emb_10", "emb_11", "emb_12", "emb_13", "emb_14",
       "emb_15", "emb_16", "emb_17", "emb_18", "emb_19", "emb_20", "emb_21",
       "emb_22", "emb_23", "emb_24" >>

\* build_feature_vector: the names of the vector.  config/patterns.json is
\* not part of the sources, so load_patterns yields no vitals pattern and
\* the vitals group is empty.
FeatureNames == BASIC_FEATURES \o EMBEDDING_FEATURES

\* The regressor classes that expose coef_
LINEAR_CLASSES == {"Ridge"}

\* A get_status that keeps what it read from the files in the wrapper.
get_statusCaching(self, files) ==
    LET present == [ model |-> files.model.exists,
                     feature_meta |-> files.feature_meta.exists,
                     thresholds |-> files.thresholds.exists,
                     vectorizer |-> files.vectorizer.exists ]
        feature_names ==
            IF self._feature_names # << >> THEN self._feature_names
            ELSE IF present.feature_meta /\ IsSome(files.feature_meta.content)
            THEN DictGet(Val(files.feature_meta.content), "feature_names", << >>)
            ELSE << >>
        thresholds ==
            IF DOMAIN self._thresholds # {} THEN self._thresholds
            ELSE IF present.thresholds /\ IsSome(files.thresholds.content)
            THEN Val(files.thresholds.content)
            ELSE << >>
    IN  [ self |-> [self EXCEPT !._feature_names = feature_names,
                                !._thresholds = thresholds],
          status |-> [ trained |-> present.model /\ present.feature_meta
                                      /\ present.thresholds,
                       artifacts |-> present,
                       feature_count |-> Len(feature_names),
                       feature_names |-> feature_names,
                       thresholds |-> thresholds ] ]

\* SeverityModelWrapper.get_status: the wrapper after the call and the
\* dict returned.  A file whose JSON cannot be read leaves the default.
get_status(self, files) ==
    LET present == [ model |-> files.model.exists,
                     feature_meta |-> files.feature_meta.exists,
                     thresholds |-> files.thresholds.exists,
                     vectorizer |-> files.vectorizer.exists ]
        feature_names ==
            IF self._feature_names # << >> THEN self._feature_names
            ELSE IF present.feature_meta /\ IsSome(files.feature_meta.content)
            THEN DictGet(Val(files.feature_meta.content), "feature_names", << >>)
            ELSE << >>
        thresholds ==
            IF DOMAIN self._thresholds # {} THEN self._thresholds
            ELSE IF present.thresholds /\ IsSome(files.thresholds.content)
            THEN Val(files.thresholds.content)
            ELSE << >>
    IN  [ self |-> self,
          status |-> [ trained |-> present.model /\ present.feature_meta
                                      /\ present.thresholds,
                       artifacts |-> present,
                       feature_count |-> Len(feature_names),
                       feature_names |-> feature_names,
                       thresholds |-> thresholds ] ]

\* What a call yields besides its value: the wrapper after it and the
\* exception it raised, "" when it returned.
Completed(self) == [self |-> self, raised |-> ""]
Raised(self, exc) == [self |-> self, raised |-> exc]

\* SeverityModelWrapper.ensure_loaded.  The assignments made before a
\* failing read stay in the wrapper.
ensure_loaded(self, files, packages) ==
    IF IsSome(self._model) THEN Completed(self)
    ELSE IF ~files.model.exists \/ ~files.feature_meta.exists \/ ~files.thresholds.exists
    THEN Raised(self, "ModelNotTrained")
    ELSE IF "spacy" \notin packages THEN Raised(self, "RuntimeError")
    ELSE
      LET with_nlp == [self EXCEPT !._nlp = 1]
          with_model == [with_nlp EXCEPT !._model = files.model.content]
          with_vectorizer ==
              IF files.vectorizer.exists
              THEN [with_model EXCEPT !._vectorizer = files.vectorizer.content]
              ELSE with_model
          with_names ==
              [with_vectorizer EXCEPT !._feature_names =
                  DictGet(Val(files.feature_meta.content), "feature_names", << >>)]
      IN  IF ~IsSome(files.model.content) THEN Raised(with_nlp, "EOFError")
          ELSE IF files.vectorizer.exists /\ ~IsSome(files.vectorizer.content)
          THEN Raised(with_model, "EOFError")
          ELSE IF ~IsSome(files.feature_meta.content)
          THEN Raised(with_vectorizer, "JSONDecodeError")
          ELSE IF ~IsSome(files.thresholds.content)
          THEN Raised(with_names, "JSONDecodeError")
          ELSE Completed([with_names EXCEPT !._thresholds = Val(files.thresholds.content)])

\* The category predict derives from the loaded thresholds
PredictCategory(sev, thresholds) ==
    IF DOMAIN thresholds = {} THEN "Unknown"
    ELSE IF "critical" \in DOMAIN thresholds /\ sev >= thresholds["critical"]
    THEN "Critical"
    ELSE IF "urgent" \in DOMAIN thresholds /\ sev >= thresholds["urgent"]
    THEN "Urgent"
    ELSE "Non-Urgent"

\* SeverityModelWrapper.predict.  output is what the regressor returns for
\* the text and order ranks the features by the size of their contribution,
\* largest first; both depend on the fitted coefficients, which the model
\* leaves open.  The summary payload of the result is left out.
predict(self, files, packages, output, order) ==
    Bind(ensure_loaded(self, files, packages), LAMBDA loaded :
      LET me == loaded.self
          width == IF me._feature_names # << >>
                   THEN Len(me._feature_names) ELSE Len(FeatureNames)
          sev == clamp(output, 0, 10 * Unit)
          \* the names whose index is below len(coefs)
          pairs == SelectSeq(me._feature_names, LAMBDA fname :
                      \E i \in 1..Val(me._model).n_features : me._feature_names[i] = fname)
          reasons ==
              IF Val(me._model).class \in LINEAR_CLASSES
              THEN [i \in 1..Min(3, Len(pairs)) |-> << "contrib", pairs[order[i]] >>]
              ELSE << >>
      IN  IF loaded.raised # "" THEN loaded @@ [result |-> None]
          ELSE IF me._nlp = 0 THEN Raised(me, "ModelNotTrained") @@ [result |-> None]
          ELSE IF width # Val(me._model).n_features
          THEN Raised(me, "ValueError") @@ [result |-> None]
          ELSE Completed(me) @@
               [result |-> Some([ severity_score |-> sev,
                                  category |-> PredictCategory(sev, me._thresholds),
                                  reasons |-> reasons ])])

\* ----------------------------- HTTP SERVICE: ENDPOINTS -----------------
\* main.py's sentiment fallback for a VADER compound score, given in
\* thousandths: (1 - (compound + 1)/2) * 10, clamped.
SentimentFallback(compound) ==
    LET sev == clamp((1000 - compound) * (Unit \div 200), 0, 10 * Unit)
    IN  [ severity_score |-> sev,
          category |-> IF 2 * sev >= 15 * Unit THEN "Critical"
                       ELSE IF sev >= 4 * Unit THEN "Urgent"
                       ELSE "Non-Urgent",
          reasons |-> << << "Sentiment compound", compound >> >> ]

\* main.py's heuristic fallback: systolic pressure, SpO2 and heart rate
\* read from the text, exclamation marks and urgency terms; the score is
\* clamped to 0..10 and a default reason stands in for an empty list.
HeuristicFallback(text) ==
    LET bp == BP_REGEX(text)
        hr == KeywordNumberSearch(text, FALLBACK_HR_KEYWORDS, << >>)
        spo2 == KeywordNumberSearch(text, FALLBACK_SPO2_KEYWORDS, << "%" >>)
        urgent_terms == UrgentTerms(text)
        low_bp == IsSome(bp) /\ Val(bp)[1] < 80
        mid_bp == IsSome(bp) /\ Val(bp)[1] >= 80 /\ Val(bp)[1] < 90
        low_ox == IsSome(spo2) /\ Val(spo2) < 85
        mid_ox == IsSome(spo2) /\ Val(spo2) >= 85 /\ Val(spo2) < 92
        tachy == IsSome(hr) /\ Val(hr) >= 130
        score == clamp(
              (IF low_bp THEN 4 * Unit ELSE IF mid_bp THEN 2 * Unit ELSE 0)
            + (IF low_ox THEN 4 * Unit ELSE IF mid_ox THEN 2 * Unit ELSE 0)
            + (IF tachy THEN 2 * Unit ELSE 0)
            + Min(Unit, CountExclaims(text) * ((3 * Unit) \div 10))
            + (IF urgent_terms # {}
               THEN Min(3 * Unit, (15 * Unit) \div 10
                                   + Cardinality(urgent_terms) * ((3 * Unit) \div 10))
               ELSE 0),
              0, 10 * Unit)
        reasons ==
               (IF low_bp THEN << << "Low systolic", Val(bp)[1] >> >>
                ELSE IF mid_bp THEN << << "Borderline systolic", Val(bp)[1] >> >>
                ELSE << >>)
            \o (IF low_ox THEN << << "Low SpO2", Val(spo2) >> >>
                ELSE IF mid_ox THEN << << "Moderate SpO2", Val(spo2) >> >>
                ELSE << >>)
            \o (IF tachy THEN << << "Tachycardia HR", Val(hr) >> >> ELSE << >>)
            \o (IF urgent_terms # {}
                THEN << << "Urgency terms", {Lower(u) : u \in urgent_terms} >> >>
                ELSE << >>)
    IN  [ severity_score |-> score,
          category |-> IF 2 * score >= 15 * Unit THEN "Critical"
                       ELSE IF score >= 4 * Unit THEN "Urgent"
                       ELSE "Non-Urgent",
          reasons |-> IF reasons # << >> THEN reasons
                      ELSE << << "Heuristic fallback (no model)", 0 >> >> ]

\* os.getenv("USE_PRETRAINED_SEVERITY", "0").lower() in {"1", "true", "yes"}
UsePretrained(where) ==
    Lower(IF IsSome(where.USE_PRETRAINED_SEVERITY)
          THEN Val(where.USE_PRETRAINED_SEVERITY) ELSE << "0" >>)
        \in { << "1" >>, << "t", "r", "u", "e" >>, << "y", "e", "s" >> }

\* An HTTP reply of main.py: the status code, the path that produced the
\* body, the body, and the wrapper after the request.
Replied(self, code, path, body) ==
    [self |-> self, code |-> code, path |-> path, body |-> body]

\* main.py model_info: get_status and the fallback_active flag
model_info(self, files) ==
    Bind(get_status(self, files), LAMBDA called :
      Replied(called.self, 200, "status",
              Some(called.status @@ [fallback_active |-> ~called.status.trained])))

\* main.py summarize.  The request model rejects a description of fewer
\* than five characters (422); an all-blank description is a 400; predict
\* answers when the model is trained; ModelNotTrained leads to the
\* sentiment fallback when it is switched on and vaderSentiment imports,
\* else to the heuristic fallback; any other exception is a 500.
summarize(description, self, files, where, output, order, compound) ==
    Bind(Strip(description), LAMBDA text :
      IF Len(description) < 5 THEN Replied(self, 422, "", None)
      ELSE IF text = << >> THEN Replied(self, 400, "", None)
      ELSE Bind(predict(self, files, where.packages, output, order), LAMBDA p :
        IF p.raised = "" THEN Replied(p.self, 200, "model", p.result)
        ELSE IF p.raised = "ModelNotTrained"
        THEN IF UsePretrained(where) /\ "vaderSentiment" \in where.packages
             THEN Replied(p.self, 200, "sentiment", Some(SentimentFallback(compound)))
             ELSE Replied(p.self, 200, "heuristic", Some(HeuristicFallback(text)))
        ELSE Replied(p.self, 500, "", None)))

\* ----------------------------- HTTP SERVICE: INPUTS --------------------
\* How many requests the service answers, how often --train is run.
MaxRequests == 2
MaxTrainings == 1

DescCollapse == << "U", "n", "c", "o", "n", "s", "c", "i", "o", "u", "s", ",", " ", "n", "o", "t", " ", "b", "r", "e", "a", "t", "h", "i", "n", "g", "!", "!", "!", " ", "B", "P", " ", "7", "0", "/", "4", "0", " ", "s", "p", "o", "2", " ", "8", "0", "%", " ", "p", "u", "l", "s", "e", " ", "1", "4", "0" >>
DescCough == << "f", "e", "v", "e", "r", " ", "a", "n", "d", " ", "c", "o", "u", "g", "h" >>
DescBlank == << " ", " ", " ", " ", " " >>
DescShort == << "h", "e", "l", "p" >>

\* The descriptions posted: the example of the test, one that trips every
\* rule of the heuristic, one that trips none, a blank and a short one.
Descriptions == { EXAMPLE, DescCollapse, DescCough, DescBlank, DescShort }

\* What the fitted regressor and VADER answer for a request: the
\* regressor's output (below, within and above the score range), the
\* ranking of the features by contribution, largest first, and the
\* compound score in thousandths.
Answers ==
    { [output |-> 0 - 2 * Unit, order |-> << 1, 2, 3 >>, compound |-> 0 - 1000],
      [output |-> 5 * Unit, order |-> << 31, 6, 1 >>, compound |-> 0 - 500],
      [output |-> 12 * Unit, order |-> << 1, 2, 3 >>, compound |-> 0],
      [output |-> 7 * Unit, order |-> << 6, 5, 4 >>, compound |-> 1000] }

\* The label quantiles (0.4, 0.75) of the training data sets.
Datasets ==
    { [urgent |-> 4 * Unit, critical |-> 7 * Unit],
      [urgent |-> 5 * Unit, critical |-> 5 * Unit] }

\* Where the service runs: USE_PRETRAINED_SEVERITY unset or set, and the
\* optional packages installed.
Hosts ==
    { [USE_PRETRAINED_SEVERITY |-> e, packages |-> ps] :
        e \in { None, Some(<< "0" >>), Some(<< "T", "r", "u", "e" >>) },
        ps \in { {"spacy"}, {"spacy", "vaderSentiment"} } }
    \cup { [USE_PRETRAINED_SEVERITY |-> Some(<< "y", "e", "s" >>), packages |-> {}] }

\* The artifacts directory at start: empty, or holding only a vectorizer
\* left by an earlier version.
ArtifactsAtStart ==
    { NoArtifacts, [NoArtifacts EXCEPT !.vectorizer = Written("TfidfVectorizer")] }

\* ----------------------------- HTTP SERVICE SPEC -----------------------
InitService ==
    /\ SNOMED_MAP = SNOMED_MAP_AT_IMPORT
    /\ requests = << >>
    /\ summ = None
    /\ config = CONFIG
    /\ MODEL_CACHE = [model |-> 0, kind |-> "None"]
    /\ loads = 0
    /\ inbox = << >>
    /\ tri = None
    /\ world = [exists |-> TRUE, load_ok |-> TRUE]
    /\ pc = << >>
    /\ local = << >>
    /\ _MODEL_WRAPPER = 0
    /\ wrappers = << >>
    /\ made = [wrappers |-> 0, nlp |-> 0, models |-> 0]
    /\ artifacts \in ArtifactsAtStart
    /\ host \in Hosts
    /\ wrapper = SeverityModelWrapper
    /\ trainer = TrainerIdle
    /\ served = 0
    /\ reply = None

\* What reply records of a request: its number, the endpoint, the wrapper
\* and the files it met, and what the handler yielded.
Record(endpoint, answered) ==
    Some([ n |-> served + 1, endpoint |-> endpoint, wrapper_before |-> wrapper,
           files |-> artifacts, code |-> answered.code, path |-> answered.path,
           body |-> answered.body ])

\* GET /model_info
GetModelInfo ==
    /\ served < MaxRequests
    /\ \E answered \in {model_info(wrapper, artifacts)} :
           /\ wrapper' = answered.self
           /\ reply' = Record("/model_info", answered)
    /\ served' = served + 1
    /\ UNCHANGED <<artifacts, host, trainer, triageVars, summaryVars, loaderVars>>

\* POST /summarize
PostSummarize ==
    /\ served < MaxRequests
    /\ \E description \in Descriptions, a \in Answers :
         \E answered \in {summarize(description, wrapper, artifacts, host,
                                    a.output, a.order, a.compound)} :
           /\ wrapper' = answered.self
           /\ reply' = Record("/summarize", answered)
    /\ served' = served + 1
    /\ UNCHANGED <<artifacts, host, trainer, triageVars, summaryVars, loaderVars>>

\* guardian_cli.py --train up to model.fit: the rows are read, the features
\* built with a wrapper of its own, the regressor fitted.  Without spaCy
\* the command exits before it writes anything.
TrainFit ==
    /\ trainer.pc = "idle"
    /\ trainer.runs < MaxTrainings
    /\ "spacy" \in host.packages
    /\ \E y \in Datasets :
         trainer' = [pc |-> "open_model", runs |-> trainer.runs + 1, y |-> y]
    /\ UNCHANGED <<artifacts, host, wrapper, served, reply,
                   triageVars, summaryVars, loaderVars>>

\* The three files _train writes, in order, and what it writes to each.
TrainFiles == << "model", "feature_meta", "thresholds" >>
TrainContent(file, y) ==
    CASE file = "model" -> [class |-> "Ridge", n_features |-> Len(FeatureNames)]
      [] file = "feature_meta" -> [feature_names |-> FeatureNames]
      [] file = "thresholds" -> [urgent |-> y.urgent, critical |-> y.critical]

\* joblib.dump / open(path, 'w'): the file is created or truncated.
TrainOpen ==
    /\ \E k \in 1..Len(TrainFiles) :
         /\ trainer.pc = "open_" \o TrainFiles[k]
         /\ artifacts' = [artifacts EXCEPT ![TrainFiles[k]] = Opened]
         /\ trainer' = [trainer EXCEPT !.pc = "dump_" \o TrainFiles[k]]
    /\ UNCHANGED <<host, wrapper, served, reply, triageVars, summaryVars, loaderVars>>

\* The content is written and the file closed; after the last file the
\* command ends.
TrainDump ==
    /\ \E k \in 1..Len(TrainFiles) :
         /\ trainer.pc = "dump_" \o TrainFiles[k]
         /\ artifacts' = [artifacts EXCEPT
                            ![TrainFiles[k]] = Written(TrainContent(TrainFiles[k], trainer.y))]
         /\ trainer' = [trainer EXCEPT
                          !.pc = IF k < Len(TrainFiles)
                                 THEN "open_" \o TrainFiles[k + 1] ELSE "idle"]
    /\ UNCHANGED <<host, wrapper, served, reply, triageVars, summaryVars, loaderVars>>

NextService ==
    \/ GetModelInfo
    \/ PostSummarize
    \/ TrainFit
    \/ TrainOpen
    \/ TrainDump

SpecService == InitService /\ [][NextService]_vars

\* ----------------------------- TRIAGE PROPERTIES ----------------------
\* The observed call, once it has returned.
Returned == IsSome(tri)
TheCase == Val(tri).case
TheOut == Val(tri).out
TheResult == Val(tri).out.result

HasNumberBelow(vitals, key, limit) == IsSome(vitals[key]) /\ Val(vitals[key]) < limit

HasChestPain(case_json) ==
    \E i \in 1..Len(case_json.symptoms) : TermOf(case_json.symptoms[i]) \in CHEST_PAIN_TERMS

PostCalibReason == Reason("Post-calibration: chest pain + tachycardia", 0, "")

InSeq(x, s) == \E i \in 1..Len(s) : s[i] = x

\* C1: under the default rule switches, a case whose vitals hold a numeric
\* bp_systolic < 80 or a numeric spo2 < 85 is returned as Critical with
\* urgency_score exactly 9.5, whatever its other fields.
C1_LowVitalsAreCritical ==
    ( /\ Returned
      /\ config \in Configs
      /\ \/ HasNumberBelow(TheCase.vitals, "bp_systolic", 80)
         \/ HasNumberBelow(TheCase.vitals, "spo2", 85) )
    => /\ TheResult.category = "Critical"
       /\ TheResult.urgency_score = 9500000

\* A case with systolic 79 and nothing else was returned as Critical 9.5.
C1_Witness ==
    /\ Returned
    /\ TheCase.vitals = Vitals(None, Some(79), None, None)
    /\ TheCase.symptoms = << >>
    /\ TheResult.category = "Critical"
    /\ TheResult.urgency_score = 9500000

\* C2: when at least one rule fires, triage_case runs neither feature
\* extraction nor the model nor the heuristic nor post-calibration, leaves
\* the model cache alone, and returns 9.5, Critical, model_confidence null
\* and reasons that are all rule reasons.
C2_RuleHitBypassesScoring ==
    ( Returned /\ check_critical_rules(TheCase, config).fired )
    => /\ TheResult.urgency_score = 9500000
       /\ TheResult.category = "Critical"
       /\ TheResult.model_confidence = None
       /\ \A i \in 1..Len(TheResult.reasons) :
              InSeq(TheResult.reasons[i], check_critical_rules(TheCase, config).reasons)
       /\ Len(TheResult.reasons) >= 1
       /\ ~TheOut.features_run
       /\ ~TheOut.heuristic_run
       /\ ~TheOut.postcal
       /\ TheOut.model_outcome = "not_called"
       /\ TheOut.cache = Val(tri).cache_before

\* A rule fired on a chest-pain case with heart rate 140 while a loadable
\* model was at hand, and the result carries two rule reasons only.
C2_Witness ==
    /\ Returned
    /\ TheCase = ExampleA
    /\ ~config.SKIP_ML
    /\ Val(tri).env.backend /\ Val(tri).env.exists /\ Val(tri).env.load_ok
    /\ Len(TheResult.reasons) = 2
    /\ TheResult.urgency_score = 9500000

\* C3: a case with a chest-pain symptom and a numeric heart rate > 100 is
\* never returned Non-Urgent and never with a score under 4.0; when its
\* score before calibration is under the urgent threshold the result is
\* 4.3, Urgent, and carries the post-calibration reason.
C3_ChestPainTachycardiaFloor ==
    ( /\ Returned
      /\ HasChestPain(TheCase)
      /\ IsSome(TheCase.vitals.hr) /\ Val(TheCase.vitals.hr) > 100 )
    => /\ TheResult.category # "Non-Urgent"
       /\ TheResult.urgency_score >= 4000000
       /\ TheOut.pre_score < CONFIG.URGENT_THRESHOLD
          => /\ TheResult.urgency_score = 4300000
             /\ TheResult.category = "Urgent"
             /\ InSeq(PostCalibReason, TheResult.reasons)

\* Post-calibration acted on a model score under the threshold and its
\* reason is the sixth of six returned reasons.
C3_Witness ==
    /\ Returned
    /\ HasChestPain(TheCase)
    /\ IsSome(TheCase.vitals.hr) /\ Val(TheCase.vitals.hr) > 100
    /\ TheOut.pre_score < CONFIG.URGENT_THRESHOLD
    /\ TheOut.model_outcome = "predicted"
    /\ Len(TheResult.reasons) = 6
    /\ TheResult.reasons[6] = PostCalibReason
    /\ TheResult.urgency_score = 4300000

\* C4: in every result the category is the one the thresholds give the
\* returned urgency_score: Critical iff >= 8.5, Urgent iff 4.0 <= score <
\* 8.5, Non-Urgent iff < 4.0.
C4_CategoryAgreesWithReturnedScore ==
    Returned
    => /\ TheResult.category = "Critical" <=> TheResult.urgency_score >= 8500000
       /\ TheResult.category = "Urgent" <=> ( /\ TheResult.urgency_score >= 4000000
                                              /\ TheResult.urgency_score < 8500000 )
       /\ TheResult.category = "Non-Urgent" <=> TheResult.urgency_score < 4000000

\* C6: when no rule fires and the model is unavailable (SKIP_ML, no
\* backend or artifact with an empty cache, load raises, predict raises)
\* the call returns the heuristic's score and reasons with model_confidence
\* null; and model_confidence is non-null exactly when the model predicted
\* during the call.
ModelUnavailable ==
    \/ config.SKIP_ML
    \/ /\ Val(tri).cache_before.model = 0
       /\ ~(Val(tri).env.backend /\ Val(tri).env.exists /\ Val(tri).env.load_ok)
    \/ ~Val(tri).env.predict_ok

C6_HeuristicFallback ==
    Returned
    => /\ ( ~check_critical_rules(TheCase, config).fired /\ ModelUnavailable )
          => /\ TheResult.model_confidence = None
             /\ TheResult.urgency_score
                  = Round2(heuristic_score(extract_features(TheCase)).score)
             /\ TheResult.reasons = heuristic_score(extract_features(TheCase)).reasons
       /\ IsSome(TheResult.model_confidence) <=> TheOut.model_outcome = "predicted"
       /\ TheOut.model_outcome = "predicted"
            <=> /\ ~check_critical_rules(TheCase, config).fired
                /\ ~ModelUnavailable

\* joblib.load raised on first use, no rule fired, and the heuristic
\* answered with model_confidence null.
C6_Witness ==
    /\ Returned
    /\ ~config.SKIP_ML
    /\ Val(tri).cache_before.model = 0
    /\ Val(tri).env.backend /\ Val(tri).env.exists /\ ~Val(tri).env.load_ok
    /\ TheOut.model_outcome = "load_raised"
    /\ TheResult.model_confidence = None
    /\ Len(TheResult.reasons) >= 1

\* a sequence without repeated elements
NoRepeats(s) == \A i, j \in 1..Len(s) : i # j => s[i] # s[j]

\* a rule of check_critical_rules fires on the observed case
RuleFired == check_critical_rules(TheCase, config).fired

\* a vital of the case is one heuristic_score adds a contribution for
AbnormalVital(vitals) ==
    \/ HasNumberBelow(vitals, "bp_systolic", 90) /\ Val(vitals["bp_systolic"]) > 0
    \/ HasNumberBelow(vitals, "spo2", 95) /\ Val(vitals["spo2"]) > 0
    \/ IsSome(vitals["hr"]) /\ Val(vitals["hr"]) > 110

\* C13: whichever optional fields of the case are present, the vector of
\* extract_features has the 20 entries of FEATURE_ORDER, in that order,
\* and an absent vital, an absent age with its two flags, the symptom and
\* severity flags of an empty symptom list, the count of no modifiers and
\* the flags of an empty history are all 0.
C13_FeatureVectorShape ==
    ( Returned /\ TheOut.features_run ) =>
        LET fv == extract_features(TheCase)
            v(name) == FeatureValue(fv, name)
        IN  /\ Len(fv.vector) = 20
            /\ fv.names = FEATURE_ORDER
            /\ Len(FEATURE_ORDER) = 20
            /\ \A k \in {"hr", "bp_systolic", "bp_diastolic", "spo2"} :
                   IF IsSome(TheCase.vitals[k]) THEN v(k) = Val(TheCase.vitals[k])
                   ELSE v(k) = 0
            /\ ~IsSome(TheCase.age) =>
                   v("age") = 0 /\ v("is_elderly") = 0 /\ v("is_infant") = 0
            /\ TheCase.symptoms = << >> =>
                   \A n \in {"sym_chest_pain", "sym_sob", "sym_seizure", "sym_unconscious",
                             "sym_bleeding", "sym_headache", "sym_fainting",
                             "sym_altered_mental", "sev_any"} : v(n) = 0
            /\ v("mod_count") = Len(TheCase.modifiers)
            /\ TheCase.history = << >> =>
                   v("hist_cardiac") = 0 /\ v("hist_anticoagulant") = 0

\* Features were extracted from a case with a heart rate but no other
\* vital, no symptom, no age, no modifier and no history.
C13_Witness ==
    /\ Returned
    /\ TheOut.features_run
    /\ IsSome(TheCase.vitals["hr"])
    /\ ~IsSome(TheCase.vitals["spo2"])
    /\ ~IsSome(TheCase.vitals["bp_systolic"])
    /\ TheCase.symptoms = << >>
    /\ ~IsSome(TheCase.age)
    /\ TheCase.modifiers = << >>
    /\ TheCase.history = << >>

\* C14: every result of triage_case, on the rule-override, model and
\* heuristic paths, has at most 6 reasons and no reason twice.
C14_ReasonsBoundedAndDistinct ==
    Returned => Len(TheResult.reasons) <= 6 /\ NoRepeats(TheResult.reasons)

\* C15 as stated: with an empty symptom list and no rule firing the
\* category is Non-Urgent, whatever the vitals, age, modifiers and history.
C15_NoSymptomsIsNonUrgent ==
    ( Returned /\ TheCase.symptoms = << >> /\ ~RuleFired ) =>
        TheResult.category = "Non-Urgent"

\* C15 amended: with an empty symptom list and no rule firing, the call
\* returns; when no model prediction is used and no vital is abnormal
\* (systolic pressure below 90, SpO2 below 95, heart rate above 110) the
\* category is Non-Urgent, whatever the age, modifiers and history.
C15_NoSymptomsNormalVitalsNonUrgent ==
    ( Returned /\ TheCase.symptoms = << >> /\ ~RuleFired ) =>
        /\ TheResult.category \in {"Critical", "Urgent", "Non-Urgent"}
        /\ ( ModelUnavailable /\ ~AbnormalVital(TheCase.vitals) ) =>
               /\ TheResult.category = "Non-Urgent"
               /\ TheResult.urgency_score < CONFIG.URGENT_THRESHOLD

\* No symptom, vitals present and normal, an infant with six modifiers and
\* a cardiac and anticoagulant history, scored by the heuristic.
C15_Witness ==
    /\ Returned
    /\ TheCase.symptoms = << >>
    /\ ~RuleFired
    /\ ModelUnavailable
    /\ IsSome(TheCase.vitals["hr"])
    /\ ~AbnormalVital(TheCase.vitals)
    /\ Len(TheCase.modifiers) = 6
    /\ TheCase.age = Some(1)
    /\ TheResult.urgency_score > 3000000
    /\ TheResult.category = "Non-Urgent"

RuleRank(reason) ==
    CASE reason.text = "bp_systolic (critical)" -> 1
      [] reason.text = "SpO2 % (critical)" -> 2
      [] reason.text = "(critical symptom)" -> 3
      [] reason.text = "seizure activity (critical)" -> 4
      [] reason.text = "severe bleeding (critical)" -> 5
      [] OTHER -> 0

\* the terms of the critical symptom entries of a symptom list, in its order
CriticalTerms(symptoms) ==
    LET idx == {i \in 1..Len(symptoms) : TermOf(symptoms[i]) \in CRITICAL_SYMPTOMS}
        nth(k) == CHOOSE i \in idx : Cardinality({j \in idx : j <= i}) = k
    IN  [k \in 1..Cardinality(idx) |-> TermOf(symptoms[nth(k)])]

\* the entries of a reason list that do not come from rule number r
WithoutRule(reasons, r) ==
    LET idx == {i \in 1..Len(reasons) : RuleRank(reasons[i]) # r}
        nth(k) == CHOOSE i \in idx : Cardinality({j \in idx : j <= i}) = k
    IN  [k \in 1..Cardinality(idx) |-> reasons[nth(k)]]

\* the number of the rule that is switched off in cfg, 0 when none is
SwitchedOff(cfg) ==
    IF \E r \in 1..5 : ~cfg[RULE_SWITCHES[r]]
    THEN CHOOSE r \in 1..5 : ~cfg[RULE_SWITCHES[r]]
    ELSE 0

\* C21: on a rule override the returned reasons are the first 4 of the rule
\* reasons, and the rule reasons come in the order low systolic, low SpO2,
\* one per critical symptom entry in symptom order, seizure, profuse
\* bleeding, each of the four single rules giving at most one reason; with
\* one rule switched off the rule reasons are those of the default
\* configuration less that rule's.
C21_RuleReasonsInRuleOrder ==
    ( Returned /\ RuleFired ) =>
        LET full == TheOut.rule_reasons
            crit == {i \in 1..Len(full) : RuleRank(full[i]) = 3}
            low == Cardinality({i \in 1..Len(full) : RuleRank(full[i]) < 3})
        IN  /\ TheResult.reasons = Take(full, 4)
            /\ Len(TheResult.reasons) = Min(4, Len(full))
            /\ \A i \in 1..Len(full) : RuleRank(full[i]) \in 1..5
            /\ \A i, j \in 1..Len(full) : i < j => RuleRank(full[i]) <= RuleRank(full[j])
            /\ \A r \in {1, 2, 4, 5} :
                   Cardinality({i \in 1..Len(full) : RuleRank(full[i]) = r}) <= 1
            /\ crit # {} =>
                   /\ Cardinality(crit) = Len(CriticalTerms(TheCase.symptoms))
                   /\ \A i \in crit :
                          full[i].term = CriticalTerms(TheCase.symptoms)[i - low]
            /\ full = WithoutRule(check_critical_rules(TheCase, CONFIG).reasons,
                                  SwitchedOff(config))

\* With the low SpO2 rule switched off, the case on which every rule fires
\* came back with the low systolic reason, the two critical symptom reasons
\* in symptom order and the seizure reason; the bleeding reason was cut.
C21_Witness ==
    /\ Returned
    /\ TheCase = CaseEveryRule
    /\ ~config.ENABLE_RULE_LOW_SPO2
    /\ Len(TheOut.rule_reasons) = 5
    /\ TheResult.reasons
         = << Reason("bp_systolic (critical)", 70, ""),
              Reason("(critical symptom)", 0, "unresponsive"),
              Reason("(critical symptom)", 0, "unconscious"),
              Reason("seizure activity (critical)", 0, "") >>

\* the symptom entries of the observed case whose term is seizure
SeizureEntries == {i \in 1..Len(TheCase.symptoms) : TheCase.symptoms[i].term = "seizure"}

SeizureReason == Reason("seizure activity (critical)", 0, "")

\* C22: with the seizure rule switched on, the rule gives its reason
\* exactly when the case has a seizure entry and either more than one
\* seizure entry or a seizure entry of severity severe or critical; a
\* single seizure entry of no or another severity does not fire it, and
\* neither does the severity of an entry that is not a seizure.
C22_SeizureRuleFiresOnSeverityOrRepeat ==
    ( Returned /\ config.ENABLE_RULE_SEIZURE_CRITICAL ) =>
        /\ InSeq(SeizureReason, TheOut.rule_reasons)
             <=> \/ Cardinality(SeizureEntries) > 1
                 \/ \E i \in SeizureEntries :
                        TheCase.symptoms[i].severity \in {Some("severe"), Some("critical")}
        /\ InSeq(SeizureReason, TheOut.rule_reasons) =>
               /\ TheResult.category = "Critical"
               /\ TheResult.urgency_score = CONFIG.CRITICAL_OVERRIDE_SCORE
        /\ ( /\ Cardinality(SeizureEntries) = 1
             /\ \A i \in SeizureEntries :
                    TheCase.symptoms[i].severity \notin {Some("severe"), Some("critical")}
             /\ ~check_critical_rules([TheCase EXCEPT !.symptoms = << >>], config).fired
             /\ \A i \in 1..Len(TheCase.symptoms) :
                    TheCase.symptoms[i].term \notin CRITICAL_SYMPTOMS \cup BLEED_TERMS )
            => TheOut.heuristic_run

\* A single seizure entry of severity sudden next to a chest pain entry of
\* severity severe was scored by the heuristic: the seizure rule stayed
\* silent.
C22_Witness ==
    /\ Returned
    /\ config.ENABLE_RULE_SEIZURE_CRITICAL
    /\ TheCase.symptoms = << Symptom("chest pain", Some("severe"), None),
                             Symptom("seizure", Some("sudden"), None) >>
    /\ TheOut.rule_reasons = << >>
    /\ TheOut.heuristic_run
    /\ TheResult.category # "Critical"

\* C24: in the vector extract_features builds, is_infant is 1 exactly when
\* the case has an age and it is under 2, age 0 included, and is_elderly is
\* 1 exactly when the age is 65 or more.
C24_InfantAndElderlyFlags ==
    ( Returned /\ TheOut.features_run ) =>
        LET fv == extract_features(TheCase)
        IN  /\ FeatureValue(fv, "is_infant")
                 = Flag(IsSome(TheCase.age) /\ Val(TheCase.age) < 2)
            /\ FeatureValue(fv, "is_elderly")
                 = Flag(IsSome(TheCase.age) /\ Val(TheCase.age) >= 65)
            /\ ( ModelUnavailable /\ IsSome(TheCase.age) /\ Val(TheCase.age) < 2 )
                   => InSeq(Reason("Infant", 0, ""), TheResult.reasons)

\* C28: when the heuristic supplies the score of a case with a chest-pain
\* symptom and a heart rate over 100, the score is at least the
\* recalibration floor 5.2, the category is Urgent or Critical, and the
\* post-calibration of triage_case does not act; post-calibration acts
\* only on a score the model predicted.
C28_HeuristicFloorPreemptsPostCalibration ==
    Returned =>
        /\ ( /\ HasChestPain(TheCase)
             /\ IsSome(TheCase.vitals.hr) /\ Val(TheCase.vitals.hr) > 100
             /\ TheOut.heuristic_run
             /\ TheOut.model_outcome # "predicted" )
            => /\ TheOut.pre_score >= 5200000
               /\ TheOut.pre_score = heuristic_score(extract_features(TheCase)).score
               /\ TheResult.urgency_score >= 5200000
               /\ TheResult.category \in {"Urgent", "Critical"}
               /\ ~TheOut.postcal
               /\ ~InSeq(PostCalibReason, TheResult.reasons)
        /\ TheOut.postcal => TheOut.model_outcome = "predicted"

\* Chest pain with heart rate 101 and nothing else, scored by the
\* heuristic: raised from 3.0 to the floor 5.2, Urgent, no post-calibration.
C28_Witness ==
    /\ Returned
    /\ TheCase.symptoms = << Symptom("chest pain", None, None) >>
    /\ TheCase.vitals = Vitals(Some(101), None, None, None)
    /\ TheCase.modifiers = << >>
    /\ TheOut.model_outcome = "load_raised"
    /\ TheResult.urgency_score = 5200000
    /\ TheResult.category = "Urgent"
    /\ InSeq(Reason("Recalibrated (chest pain + tachycardia)", 0, ""), TheResult.reasons)
    /\ ~TheOut.postcal

\* ----------------------------- SUMMARIZER PROPERTIES -------------------
\* The observed summarize_event call, once it has returned.
Summed == IsSome(summ)
TheRequest == Val(summ).request
TheSummary == Val(summ).res.out
Found == Val(summ).res.found
Kept == Val(summ).res.kept

HasEntry(out, term) == \E k \in 1..Len(out.symptoms) : out.symptoms[k].term = term

\* C8: the result of a summarize_event call is the one a fresh process
\* returns for the same (text, vitals, history), whatever calls came
\* before; and the call leaves every entry the code table already had as it
\* was.
C8_SummarizeIsPure ==
    Summed
    => /\ TheSummary
            = summarize_event(TheRequest.text, TheRequest.vitals, TheRequest.history,
                              SNOMED_MAP_AT_IMPORT).out
       /\ \A term \in DOMAIN Val(summ).map_before :
              /\ term \in DOMAIN Val(summ).res.map
              /\ Val(summ).res.map[term] = Val(summ).map_before[term]

\* A call returned an "altered mental status" entry with its code after an
\* earlier call had registered that code.
C8_Witness ==
    /\ Summed
    /\ "altered mental status" \in DOMAIN Val(summ).map_before
    /\ \E k \in 1..Len(TheSummary.symptoms) :
           /\ TheSummary.symptoms[k].term = "altered mental status"
           /\ TheSummary.symptoms[k].code = Some("SNOMED:419284004")
    /\ IsSome(TheSummary.vitals)

\* C9: no two candidates of the extraction stage (pattern matches after
\* overlap resolution, synonym hits, informal hits) overlap in span; and
\* the text 'severe headache' gives exactly one symptom entry.
C9_NoOverlappingCandidates ==
    Summed
    => /\ \A i, j \in 1..Len(Found) :
              i # j => \/ Found[i].end <= Found[j].start
                       \/ Found[j].end <= Found[i].start
       /\ Val(summ).res.norm = Chars["severe headache"]
              => Len(TheSummary.symptoms) = 1

\* A cue stands as a whole word of the text within the 25 characters
\* before offset start.
CueBefore(lower, start) ==
    \E c \in 1..Len(NEGATION_CUES) :
        \E p \in Max(0, start - 25)..(start - Len(Chars[NEGATION_CUES[c]])) :
            /\ MatchAt(lower, Chars[NEGATION_CUES[c]], p)
            /\ p = 0 \/ ~IsWordChar(lower[p])
            /\ ~IsWordChar(lower[p + Len(Chars[NEGATION_CUES[c]]) + 1])

\* C10: a candidate with a negation cue in the 25 characters before its
\* start is not among the candidates the summary is built from, and the
\* summary has an entry of its term only if another candidate that has no
\* such cue gives that term; the text 'no chest pain' gives no chest-pain
\* entry.
C10_NegatedCandidatesDropped ==
    Summed
    => /\ \A i \in 1..Len(Found) :
              CueBefore(Lower(Val(summ).res.norm), Found[i].start)
              => /\ \A k \in 1..Len(Kept) :
                        ~( Kept[k].term = Found[i].term /\ Kept[k].start = Found[i].start )
                 /\ HasEntry(TheSummary, _normalize_symptom(Found[i].term))
                        => \E j \in 1..Len(Found) :
                               /\ _normalize_symptom(Found[j].term)
                                      = _normalize_symptom(Found[i].term)
                               /\ ~CueBefore(Lower(Val(summ).res.norm), Found[j].start)
       /\ Val(summ).res.norm = FragNo \o FragChestPain
              => ~HasEntry(TheSummary, "chest pain")

\* A chest-pain candidate whose cue "no" begins exactly 25 characters
\* before it was dropped and the summary has no chest-pain entry.
C10_Witness ==
    /\ Summed
    /\ Val(summ).res.norm = FragNo \o FragFiller22 \o FragChestPain
    /\ \E i \in 1..Len(Found) : Found[i].term = "chest pain" /\ Found[i].start = 25
    /\ Kept = << >>
    /\ ~HasEntry(TheSummary, "chest pain")

\* The entries of the observed call before the dedup loop, and the vitals
\* read from its text.
Entries == Val(summ).res.symptom_entries
Inline == Val(summ).res.inline_vitals

\* the entries of a term, in candidate order
EntriesOf(term) == {i \in 1..Len(Entries) : Entries[i].term = term}

\* C11: in every summary the symptom terms are pairwise distinct and come
\* in the order of their first candidates; of the candidates that
\* normalise to one term the first is the one kept, it keeps the severity
\* it has, and when it has none it gets the severity of the first later
\* candidate of the term that has one.
C11_DistinctTermsFirstKept ==
    Summed =>
        LET out == TheSummary.symptoms
            firstOf(term) == CHOOSE i \in EntriesOf(term) : \A j \in EntriesOf(term) : i <= j
            withSev(term) == {j \in EntriesOf(term) : IsSome(Entries[j].severity)}
        IN  /\ \A a, b \in 1..Len(out) : a # b => out[a].term # out[b].term
            /\ {out[k].term : k \in 1..Len(out)} = {Entries[i].term : i \in 1..Len(Entries)}
            /\ \A a, b \in 1..Len(out) :
                   a < b => firstOf(out[a].term) < firstOf(out[b].term)
            /\ \A k \in 1..Len(out) :
                   LET kept == Entries[firstOf(out[k].term)]
                   IN  /\ out[k].code = kept.code
                       /\ out[k].onset_minutes = kept.onset_minutes
                       /\ IsSome(kept.severity) => out[k].severity = kept.severity
                       /\ ~IsSome(kept.severity) =>
                             \/ withSev(out[k].term) = {} /\ out[k].severity = None
                             \/ /\ withSev(out[k].term) # {}
                                /\ out[k].severity =
                                     Entries[CHOOSE j \in withSev(out[k].term) :
                                                \A l \in withSev(out[k].term) : j <= l].severity

\* Two candidates of one term, the first without a severity and the later
\* with one, and the summary's entry of the term carrying the later's.
C11_Witness ==
    /\ Summed
    /\ \E i, j \in 1..Len(Entries) :
           /\ i < j
           /\ Entries[i].term = Entries[j].term
           /\ Entries[i].severity = None
           /\ IsSome(Entries[j].severity)
           /\ \E k \in 1..Len(TheSummary.symptoms) :
                  /\ TheSummary.symptoms[k].term = Entries[i].term
                  /\ TheSummary.symptoms[k].severity = Entries[j].severity

\* The vitals of the returned summary as a dict, empty when the field is None.
OutVitals == IF IsSome(TheSummary.vitals) THEN Val(TheSummary.vitals) ELSE EmptyDict

\* The vitals argument of the observed call as a dict, empty when absent.
CallerVitals == IF IsSome(TheRequest.vitals) THEN Val(TheRequest.vitals) ELSE EmptyDict

\* C12: for the text "Male 72 with crushing chest pain for 30 minutes,
\* diaphoretic, BP 88/52, oxygen 89%." the summary has systolic pressure
\* 88, diastolic pressure 52, saturation 89, a symptom "chest pain" with
\* severity "crushing" and onset 30 minutes, sex "male" and age 72.
C12_ExampleSummary ==
    ( Summed /\ TheRequest.text = EXAMPLE ) =>
        /\ {"bp_systolic", "bp_diastolic", "spo2"} \subseteq DOMAIN OutVitals
        /\ OutVitals["bp_systolic"] = 88
        /\ OutVitals["bp_diastolic"] = 52
        /\ OutVitals["spo2"] = 89
        /\ \E k \in 1..Len(TheSummary.symptoms) :
               /\ TheSummary.symptoms[k].term = "chest pain"
               /\ TheSummary.symptoms[k].severity = Some("crushing")
               /\ TheSummary.symptoms[k].onset_minutes = Some(30)
        /\ TheSummary.sex = Some("male")
        /\ TheSummary.age = Some(72)

C17_VitalsWithinPlausibleRanges ==
    Summed =>
        /\ "hr" \in DOMAIN OutVitals => OutVitals["hr"] \in 30..250
        /\ "spo2" \in DOMAIN OutVitals => OutVitals["spo2"] \in 40..100

\* C23: whenever the vitals of the returned summary, supplied by the
\* caller or read from the text, hold a systolic pressure below 80 or a
\* saturation below 85, every returned symptom has a severity: its own
\* when the text gave it one, 'critical' otherwise.
C23_LowVitalsTagSymptomsCritical ==
    ( /\ Summed
      /\ \/ "bp_systolic" \in DOMAIN OutVitals /\ OutVitals["bp_systolic"] < 80
         \/ "spo2" \in DOMAIN OutVitals /\ OutVitals["spo2"] < 85 )
    => \A k \in 1..Len(TheSummary.symptoms) :
           /\ IsSome(TheSummary.symptoms[k].severity)
           /\ \A i \in 1..Len(Entries) :
                  ( /\ Entries[i].term = TheSummary.symptoms[k].term
                    /\ IsSome(Entries[i].severity)
                    /\ \A j \in 1..(i - 1) : Entries[j].term # Entries[i].term )
                  => TheSummary.symptoms[k].severity = Entries[i].severity

\* Every duration mention of the lowered text as << offset, minutes >>: a
\* match of one of ONSET_REGEXES at the offset of its lead word, or a
\* number with a time unit at the offset of the number.
DurationMentions(lower) ==
    { << p, Val(OnsetMatchAt(lower, p, ONSET_REGEXES[k])) * ONSET_REGEXES[k][3] >> :
        <<p, k>> \in { x \in (0..(Len(lower) - 1)) \X (1..Len(ONSET_REGEXES)) :
                         IsSome(OnsetMatchAt(lower, x[1], ONSET_REGEXES[x[2]])) } }
    \cup
    { << p, IF IsSome(QuantityAt(lower, p, 4, HourUnits))
            THEN Val(QuantityAt(lower, p, 4, HourUnits)) * 60
            ELSE Val(QuantityAt(lower, p, 4, MinuteUnits)) >> :
        p \in { q \in NumberStarts(lower) :
                   IsSome(QuantityAt(lower, q, 4, MinuteUnits \o HourUnits)) } }

\* C25: the onset _parse_onset_minutes gives is that of the duration
\* mention at the smallest offset of the text, hours counted as 60
\* minutes, and it is None only when the text has no duration mention;
\* every symptom entry of the summary carries that onset.
C25_OnsetIsEarliestMention ==
    Summed =>
        LET lower == Lower(Val(summ).res.norm)
            mentions == DurationMentions(lower)
            onset == _parse_onset_minutes(Val(summ).res.norm)
        IN  /\ mentions = {} <=> onset = None
            /\ mentions # {} =>
                   \E m \in mentions :
                       /\ \A n \in mentions : m[1] <= n[1]
                       /\ onset = Some(m[2])
            /\ \A k \in 1..Len(TheSummary.symptoms) :
                   TheSummary.symptoms[k].onset_minutes = onset

\* C26: the heart rate read from the text is the largest of the numbers
\* HR_REGEX matches that lie in 30..250, the saturation the smallest of the
\* percentages SPO2_REGEX matches that lie in 40..100; the numbers outside
\* the ranges do not count, and a key is absent when no match is in range.
C26_InlineHrMaxSpo2Min ==
    Summed =>
        LET norm == Val(summ).res.norm
            hrs == HR_REGEX(norm) \cap (30..250)
            sats == SPO2_REGEX(Lower(norm), 0, {}) \cap (40..100)
        IN  /\ "hr" \in DOMAIN Inline <=> hrs # {}
            /\ "hr" \in DOMAIN Inline =>
                   Inline["hr"] \in hrs /\ \A v \in hrs : v <= Inline["hr"]
            /\ "spo2" \in DOMAIN Inline <=> sats # {}
            /\ "spo2" \in DOMAIN Inline =>
                   Inline["spo2"] \in sats /\ \A v \in sats : Inline["spo2"] <= v
            /\ norm = TextManyReadings =>
                   Inline = ("hr" :> 110 @@ "spo2" :> 88)
            /\ norm = FragHr300 \o FragOxygen20 => DOMAIN Inline = {}

\* Of the readings 72, 110, 300, 95%, 88% and 30% of one text the summary
\* has heart rate 110 and saturation 88.
C26_Witness ==
    /\ Summed
    /\ Val(summ).res.norm = TextManyReadings
    /\ {72, 110, 300} \subseteq HR_REGEX(Val(summ).res.norm)
    /\ SPO2_REGEX(Lower(Val(summ).res.norm), 0, {}) = {95, 88, 30}
    /\ OutVitals = ("hr" :> 110 @@ "spo2" :> 88)

\* C30: whenever the text gives a blood pressure whose systolic value lies
\* in 30..250, the vitals read from the text also hold a heart rate, and it
\* is at least that systolic value; so a summary with a chest-pain symptom
\* and a systolic pressure over 100 read from a text that mentions no heart
\* rate has a heart rate over 100.
C30_SystolicCountsAsHeartRate ==
    ( /\ Summed
      /\ "bp_systolic" \in DOMAIN Inline
      /\ Inline["bp_systolic"] \in 30..250 )
    => /\ "hr" \in DOMAIN Inline
       /\ Inline["hr"] >= Inline["bp_systolic"]
       /\ "hr" \in DOMAIN OutVitals
       /\ OutVitals["hr"] = Inline["hr"]
       /\ ( HasEntry(TheSummary, "chest pain") /\ Inline["bp_systolic"] > 100 )
              => OutVitals["hr"] > 100

\* 'chest pain BP 130/85' came back with a chest-pain entry and heart
\* rate 130.
C30_Witness ==
    /\ Summed
    /\ Val(summ).res.norm = TextChestPainBp
    /\ HasEntry(TheSummary, "chest pain")
    /\ OutVitals = ("bp_systolic" :> 130 @@ "bp_diastolic" :> 85 @@ "hr" :> 130)

\* C27: the negation filter drops a candidate only if a cue stands as a
\* whole word of the normalised text within the 25 characters before the
\* candidate's start; a cue further back, or letters of another word that
\* the window boundary cuts off, do not drop it.
C27_NegationNeedsWholeWordCue ==
    Summed =>
        \A i \in 1..Len(Found) :
            ( \A k \in 1..Len(Kept) :
                  ~( Kept[k].term = Found[i].term /\ Kept[k].start = Found[i].start ) )
            => CueBefore(Lower(Val(summ).res.norm), Found[i].start)

\* ----------------------------- SERVICE PROPERTIES ---------------------
\* The last reply, when it answers the endpoint
RepliedTo(endpoint) == IsSome(reply) /\ Val(reply).endpoint = endpoint

\* C18: get_status leaves the wrapper's loaded state unchanged (model, NLP
\* pipeline, vectorizer, feature names and thresholds are what they were
\* before the call) and reports trained = true exactly when the model,
\* feature-meta and thresholds files all exist, whether or not the
\* vectorizer file does.
C18_StatusLeavesWrapperUnloaded ==
    RepliedTo("/model_info") =>
        /\ wrapper = Val(reply).wrapper_before
        /\ Val(Val(reply).body).trained =
               ( /\ Val(reply).files.model.exists
                 /\ Val(reply).files.feature_meta.exists
                 /\ Val(reply).files.thresholds.exists )

\* /model_info answered trained = true, with the feature names read from
\* the file, while no vectorizer file exists and the wrapper has loaded
\* nothing, before and after.
C18_Witness ==
    /\ RepliedTo("/model_info")
    /\ Val(Val(reply).body).trained
    /\ Val(Val(reply).body).feature_count > 0
    /\ ~Val(reply).files.vectorizer.exists
    /\ Val(reply).wrapper_before = SeverityModelWrapper
    /\ wrapper = SeverityModelWrapper

\* C20: every successful response of /summarize, whichever path produced
\* it, has a severity_score within 0..10, a category among Critical,
\* Urgent and Non-Urgent, and at least one reason.
C20_SummarizeResponseShape ==
    ( RepliedTo("/summarize") /\ Val(reply).code = 200 ) =>
        /\ Val(Val(reply).body).severity_score >= 0
        /\ Val(Val(reply).body).severity_score <= 10 * Unit
        /\ Val(Val(reply).body).category \in {"Critical", "Urgent", "Non-Urgent"}
        /\ Val(Val(reply).body).reasons # << >>

\* C29: whenever the wrapper's model field is set, its feature names and
\* thresholds are loaded as well; no failure part-way through
\* ensure_loaded and no interleaving with a training run leaves predict
\* answering from a model with empty feature names or empty thresholds.
C29_ModelLoadedWithMetadata ==
    /\ IsSome(wrapper._model) =>
           /\ wrapper._feature_names # << >>
           /\ DOMAIN wrapper._thresholds # {}
    /\ ( RepliedTo("/summarize") /\ Val(reply).code = 200 /\ Val(reply).path = "model" ) =>
           /\ wrapper._feature_names # << >>
           /\ DOMAIN wrapper._thresholds # {}

====
